---- MODULE Spec2Model ----
(***************************************************************************)
(* Model of the tree-editing engine and drag session of ProjectSorter.tsx. *)
(*                                                                         *)
(* A TreeItem is the record [id, title, isOpen, children]; a tree is a     *)
(* sequence of TreeItems.  Ids are small naturals (the strings of the      *)
(* source), NULL is the null / falsy id.  A node is addressed by its path: *)
(* the sequence of indices leading from the root list to it, which stands  *)
(* for the object reference the source keeps in a TreeContext.             *)
(***************************************************************************)
EXTENDS Integers, Sequences, FiniteSets, TLC

\* ------------------------------------------------------------------ bounds
\* the trees the session is drawn with have up to MaxNodes nodes (Spec), or
\* more than that and up to MaxTreeNodes nodes (SpecDeep: enough of them for
\* a move to be stopped by MAX_DEPTH)
MaxNodes == 4
MaxTreeNodes == 6
\* a drag gesture is followed on the trees of 2..MaxDragNodes nodes, for
\* MaxClock ms; up to MaxQueue moves are queued between two renders
MaxDragNodes == 2
MaxClock == 500
MaxQueue == 2
\* a title is typed with up to MaxText characters
MaxText == 50

\* ------------------------------------------------------- program constants
MAX_DEPTH == 5
NULL == 0

Positions == {"before", "after", "inside"}
Directions == {"up", "down", "left", "right"}


\* ---------------------------------------------------------- sequence tools
Front(s) == SubSeq(s, 1, Len(s) - 1)
Last(s) == s[Len(s)]
\* Array.prototype.splice(i, 1)
RemoveAt(s, i) == SubSeq(s, 1, i - 1) \o SubSeq(s, i + 1, Len(s))
\* Array.prototype.splice(i0, 0, x) with the 0-based index i0
InsertAt(s, i0, x) == SubSeq(s, 1, i0) \o <<x>> \o SubSeq(s, i0 + 1, Len(s))
Max2(a, b) == IF a >= b THEN a ELSE b

\* the alphabet of ids: those of the drawn trees and one more
IdSpace == 1..(Max2(MaxNodes, MaxTreeNodes) + 1)
IsPrefix(p, q) == Len(p) <= Len(q) /\ SubSeq(q, 1, Len(p)) = p

NewNode(id) == [id |-> id, title |-> <<>>, isOpen |-> TRUE, children |-> <<>>]

\* ------------------------------------------------------------ id utilities
RECURSIVE collectIds(_)
collectIds(nodes) ==
  IF nodes = <<>> THEN {}
  ELSE LET n == Head(nodes)
       IN (IF n.id # NULL THEN {n.id} ELSE {})
          \cup collectIds(n.children) \cup collectIds(Tail(nodes))

\* the values generateId() can return
generateId == IdSpace
\* mutant: the generated id is not checked against the ids in use
generateUniqueId_unchecked(used) == generateId

\* the values generateUniqueId(used) can return: a generated id not in used
generateUniqueId(used) == generateId \ used

\* all ids in pre-order, with repetitions (collectSubtreeIds over a list)
RECURSIVE PreOrderIds(_)
PreOrderIds(nodes) ==
  IF nodes = <<>> THEN <<>>
  ELSE <<Head(nodes).id>> \o PreOrderIds(Head(nodes).children) \o PreOrderIds(Tail(nodes))

collectSubtreeIds(node) == <<node.id>> \o PreOrderIds(node.children)

SeqToSet(s) == {s[i] : i \in 1..Len(s)}

\* ------------------------------------------------------------- tree query
RECURSIVE MaxOver(_)
RECURSIVE getNodeMaxDepth(_)
MaxOver(nodes) ==
  IF nodes = <<>> THEN 0
  ELSE Max2(getNodeMaxDepth(Head(nodes)), MaxOver(Tail(nodes)))
getNodeMaxDepth(node) == 1 + MaxOver(node.children)

\* path of the first node with the id in pre-order, <<>> when there is none;
\* i is the index the scan of the list starts from
RECURSIVE FindPathFrom(_, _, _)
FindPathFrom(nodes, targetId, i) ==
  IF i > Len(nodes) THEN <<>>
  ELSE IF nodes[i].id = targetId THEN <<i>>
  ELSE LET res == FindPathFrom(nodes[i].children, targetId, 1)
       IN IF res # <<>> THEN <<i>> \o res
          ELSE FindPathFrom(nodes, targetId, i + 1)

FindPath(nodes, targetId) == FindPathFrom(nodes, targetId, 1)

RECURSIVE ListAt(_, _)
ListAt(nodes, lp) ==
  IF lp = <<>> THEN nodes ELSE ListAt(nodes[Head(lp)].children, Tail(lp))

NodeAt(nodes, path) == ListAt(nodes, Front(path))[Last(path)]

RECURSIVE SetListAt(_, _, _)
SetListAt(nodes, lp, newList) ==
  IF lp = <<>> THEN newList
  ELSE LET n == nodes[Head(lp)]
       IN [nodes EXCEPT ![Head(lp)] =
             [n EXCEPT !.children = SetListAt(n.children, Tail(lp), newList)]]

SetNodeAt(nodes, path, newNode) ==
  SetListAt(nodes, Front(path),
            [ListAt(nodes, Front(path)) EXCEPT ![Last(path)] = newNode])

\* TreeContext; index is 0-based as in the source, parent is NULL for a root
findContextById(nodes, targetId) ==
  LET path == FindPath(nodes, targetId)
  IN IF path = <<>> THEN [found |-> FALSE]
     ELSE [found |-> TRUE,
           path |-> path,
           list |-> ListAt(nodes, Front(path)),
           index |-> Last(path) - 1,
           node |-> NodeAt(nodes, path),
           parent |-> IF Len(path) = 1 THEN NULL ELSE NodeAt(nodes, Front(path)).id]

findContextByIdWithDepth(nodes, targetId) ==
  LET path == FindPath(nodes, targetId)
  IN IF path = <<>> THEN [found |-> FALSE]
     ELSE [found |-> TRUE,
           path |-> path,
           list |-> ListAt(nodes, Front(path)),
           index |-> Last(path) - 1,
           node |-> NodeAt(nodes, path),
           parent |-> IF Len(path) = 1 THEN NULL ELSE NodeAt(nodes, Front(path)).id,
           depth |-> Len(path) - 1]

RECURSIVE containsId(_, _)
RECURSIVE AnyContains(_, _)
AnyContains(nodes, targetId) ==
  IF nodes = <<>> THEN FALSE
  ELSE containsId(Head(nodes), targetId) \/ AnyContains(Tail(nodes), targetId)

\* mutant: only the node and its children are looked at, not the whole subtree
containsId_shallow(node, targetId) ==
  node.id = targetId \/ \E i \in 1..Len(node.children) : node.children[i].id = targetId

containsId(node, targetId) ==
  IF node.id = targetId THEN TRUE ELSE AnyContains(node.children, targetId)

\* ---------------------------------------------------- open / close helpers
RECURSIVE ensureOpenWalk(_, _)
ensureOpenWalk(list, targetId) ==
  IF list = <<>> THEN <<>>
  ELSE LET node == Head(list)
           next == IF node.id = targetId
                   THEN (IF node.isOpen THEN node ELSE [node EXCEPT !.isOpen = TRUE])
                   ELSE IF node.children = <<>> THEN node
                   ELSE [node EXCEPT !.children = ensureOpenWalk(node.children, targetId)]
       IN <<next>> \o ensureOpenWalk(Tail(list), targetId)

\* changed is set where the walk opens a closed target, and also at every
\* visited node that is not the target and has children: list.map returns a
\* fresh array, so nextChildren !== node.children holds there
RECURSIVE ensureOpenChanged(_, _)
ensureOpenChanged(list, targetId) ==
  IF list = <<>> THEN FALSE
  ELSE LET node == Head(list)
       IN (IF node.id = targetId THEN ~node.isOpen
           ELSE node.children # <<>>)
          \/ ensureOpenChanged(Tail(list), targetId)

ensureNodeOpenById(nodes, targetId) ==
  [tree |-> ensureOpenWalk(nodes, targetId),
   changed |-> ensureOpenChanged(nodes, targetId)]

RECURSIVE setAllNodesOpen(_, _)
setAllNodesOpen(nodes, open) ==
  IF nodes = <<>> THEN <<>>
  ELSE <<[Head(nodes) EXCEPT !.isOpen = open,
                             !.children = setAllNodesOpen(Head(nodes).children, open)]>>
       \o setAllNodesOpen(Tail(nodes), open)

\* mutant: a row below a closed ancestor counts by its own flag
branchOpen_own(ancestorClosed, node) == node.isOpen

\* getTreeOpenState: isBranchOpen
branchOpen(ancestorClosed, node) == ~ancestorClosed /\ node.isOpen

\* getTreeOpenState: walk, with hasOpen and hasClosed as w; the loop is left
\* once both are set
RECURSIVE openWalk(_, _, _)
openWalk(list, ancestorClosed, w) ==
  IF list = <<>> THEN w
  ELSE LET node == Head(list)
           w1 == IF branchOpen(ancestorClosed, node)
                 THEN [w EXCEPT !.hasOpen = TRUE]
                 ELSE [w EXCEPT !.hasClosed = TRUE]
           w2 == IF node.children # <<>>
                 THEN openWalk(node.children, ancestorClosed \/ ~node.isOpen, w1)
                 ELSE w1
       IN IF w2.hasOpen /\ w2.hasClosed THEN w2
          ELSE openWalk(Tail(list), ancestorClosed, w2)

getTreeOpenState(nodes) ==
  IF nodes = <<>> THEN "all-closed"
  ELSE LET w == openWalk(nodes, FALSE, [hasOpen |-> FALSE, hasClosed |-> FALSE])
       IN IF w.hasOpen /\ w.hasClosed THEN "mixed"
          ELSE IF w.hasOpen THEN "all-open"
          ELSE "all-closed"

\* the reducer of handleToggleAllNodes, with the state the render computed
toggleAllTree(prev, treeOpenState) ==
  IF prev = <<>> THEN prev
  ELSE IF treeOpenState = "all-open" THEN setAllNodesOpen(prev, FALSE)
  ELSE IF treeOpenState = "all-closed" THEN setAllNodesOpen(prev, TRUE)
  ELSE setAllNodesOpen(prev, TRUE)

\* the reducer of toggleOpen
RECURSIVE toggleRec(_, _)
toggleRec(nodes, id) ==
  IF nodes = <<>> THEN <<>>
  ELSE LET n == Head(nodes)
       IN <<[n EXCEPT !.isOpen = IF n.id = id THEN ~n.isOpen ELSE n.isOpen,
                      !.children = toggleRec(n.children, id)]>>
          \o toggleRec(Tail(nodes), id)

\* ----------------------------------------------------------------- delete
\* mutant: only the list itself is filtered, not the children below it
removeNodesByIds_shallow(nodes, ids) ==
  SelectSeq(nodes, LAMBDA n : n.id \notin ids)

RECURSIVE removeNodesByIds(_, _)
removeNodesByIds(nodes, ids) ==
  IF nodes = <<>> THEN <<>>
  ELSE LET n == Head(nodes)
       IN (IF n.id \in ids THEN <<>>
           ELSE <<[n EXCEPT !.children = removeNodesByIds(n.children, ids)]>>)
          \o removeNodesByIds(Tail(nodes), ids)

\* -------------------------------------------------------------------- add
\* the reducer of handleAdd for a non-null parentId and the new node n
RECURSIVE addRec(_, _, _)
addRec(nodes, parentId, n) ==
  IF nodes = <<>> THEN <<>>
  ELSE LET node == Head(nodes)
       IN <<IF node.id = parentId
            THEN [node EXCEPT !.isOpen = TRUE, !.children = Append(node.children, n)]
            ELSE [node EXCEPT !.children = addRec(node.children, parentId, n)]>>
          \o addRec(Tail(nodes), parentId, n)

\* mutant: the new node is put first
addToTree_first(prev, parentId, n) == <<n>> \o prev

addToTree(prev, parentId, n) ==
  IF parentId = NULL THEN Append(prev, n) ELSE addRec(prev, parentId, n)

\* ------------------------------------------------------------------- move
\* a reference held across list.splice(index, 1) of the node at path dp:
\* the path q of another node (or list) after the removal
AdjustPath(q, dp) ==
  IF Len(q) >= Len(dp) /\ SubSeq(q, 1, Len(dp) - 1) = Front(dp) /\ q[Len(dp)] > Last(dp)
  THEN [q EXCEPT ![Len(dp)] = @ - 1]
  ELSE q

\* mutant: the dragged node is left where it was
RemovePath_keep(tree, dp) == tree

RemovePath(tree, dp) ==
  SetListAt(tree, Front(dp), RemoveAt(ListAt(tree, Front(dp)), Last(dp)))

\* mutant: the bound is compared with <= instead of <
canPlaceNode_offByOne(tree, dragId, targetId, position) ==
  LET dragCtx == findContextByIdWithDepth(tree, dragId)
      targetCtx == findContextByIdWithDepth(tree, targetId)
  IN IF ~dragCtx.found \/ ~targetCtx.found THEN FALSE
     ELSE LET dragHeight == getNodeMaxDepth(dragCtx.node)
              baseDepth == IF position = "inside" THEN targetCtx.depth + 1
                           ELSE targetCtx.depth
          IN baseDepth + dragHeight - 1 <= MAX_DEPTH

\* mutant: 'inside' is placed at the depth of the target, not one below it
canPlaceNode_noInside(tree, dragId, targetId, position) ==
  LET dragCtx == findContextByIdWithDepth(tree, dragId)
      targetCtx == findContextByIdWithDepth(tree, targetId)
  IN IF ~dragCtx.found \/ ~targetCtx.found THEN FALSE
     ELSE targetCtx.depth + getNodeMaxDepth(dragCtx.node) - 1 < MAX_DEPTH

canPlaceNode(tree, dragId, targetId, position) ==
  LET dragCtx == findContextByIdWithDepth(tree, dragId)
      targetCtx == findContextByIdWithDepth(tree, targetId)
  IN IF ~dragCtx.found \/ ~targetCtx.found THEN FALSE
     ELSE LET dragHeight == getNodeMaxDepth(dragCtx.node)
              baseDepth == IF position = "inside" THEN targetCtx.depth + 1
                           ELSE targetCtx.depth
          IN baseDepth + dragHeight - 1 < MAX_DEPTH

\* the result is [isNull |-> TRUE] for the null of the source (no change),
\* and [isNull |-> FALSE, tree |-> newData] otherwise
NullTree == [isNull |-> TRUE]
SomeTree(t) == [isNull |-> FALSE, tree |-> t]

\* mutant: no containsId check, and the dragged node is inserted at the
\* target without being taken out of its list
moveNodeInTree_nested(tree, dragId, targetId, position) ==
  IF dragId = NULL \/ dragId = targetId THEN NullTree
  ELSE
    LET dragCtx == findContextById(tree, dragId)
        dropCtx == findContextById(tree, targetId)
    IN IF ~dragCtx.found \/ ~dropCtx.found THEN NullTree
       ELSE SomeTree(
         IF position = "inside"
         THEN SetNodeAt(tree, dropCtx.path,
                [dropCtx.node EXCEPT !.children = Append(@, dragCtx.node),
                                     !.isOpen = TRUE])
         ELSE LET to == IF position = "before" THEN dropCtx.index
                        ELSE dropCtx.index + 1
              IN SetListAt(tree, Front(dropCtx.path),
                   InsertAt(dropCtx.list, to, dragCtx.node)))

\* mutant: the insertion index is not corrected for the removal
moveNodeInTree_noShift(tree, dragId, targetId, position) ==
  IF dragId = NULL \/ dragId = targetId THEN NullTree
  ELSE
    LET dragCtx == findContextById(tree, dragId)
        dropCtx == findContextById(tree, targetId)
    IN IF ~dragCtx.found \/ ~dropCtx.found THEN NullTree
       ELSE IF containsId(dragCtx.node, targetId) THEN NullTree
       ELSE SomeTree(
         LET dp == dragCtx.path
             tp == dropCtx.path
             removed == RemovePath(tree, dp)
         IN IF position = "inside"
            THEN LET tp2 == AdjustPath(tp, dp)
                     t == NodeAt(removed, tp2)
                 IN SetNodeAt(removed, tp2,
                      [t EXCEPT !.children = Append(t.children, dragCtx.node),
                                !.isOpen = TRUE])
            ELSE LET to0 == IF position = "before" THEN dropCtx.index
                            ELSE dropCtx.index + 1
                     lp == AdjustPath(Front(tp), dp)
                     target == ListAt(removed, lp)
                     to == IF to0 > Len(target) THEN Len(target) ELSE to0
                 IN SetListAt(removed, lp, InsertAt(target, to, dragCtx.node)))

\* mutant: a move inside leaves the target's open flag as it is
moveNodeInTree_unopened(data, dragId, targetId, position) ==
  IF dragId = NULL \/ dragId = targetId THEN NullTree
  ELSE
    LET dragCtx == findContextById(data, dragId)
        dropCtx == findContextById(data, targetId)
    IN IF ~dragCtx.found \/ ~dropCtx.found THEN NullTree
       ELSE IF containsId(dragCtx.node, targetId) THEN NullTree
       ELSE SomeTree(
         LET dp == dragCtx.path
             tp == dropCtx.path
             removed == RemovePath(data, dp)
         IN IF IsPrefix(dp, tp) THEN removed
            ELSE IF position = "inside"
            THEN LET tp2 == AdjustPath(tp, dp)
                     t == NodeAt(removed, tp2)
                 IN SetNodeAt(removed, tp2,
                      [t EXCEPT !.children = Append(t.children, dragCtx.node)])
            ELSE LET to0 == IF position = "before" THEN dropCtx.index
                            ELSE dropCtx.index + 1
                     sameList == Front(dp) = Front(tp)
                     to == IF sameList /\ dragCtx.index < to0 THEN to0 - 1 ELSE to0
                     lp == AdjustPath(Front(tp), dp)
                 IN SetListAt(removed, lp,
                      InsertAt(ListAt(removed, lp), to, dragCtx.node)))

moveNodeInTree(data, dragId, targetId, position) ==
  IF dragId = NULL \/ dragId = targetId THEN NullTree
  ELSE
    LET dragCtx == findContextById(data, dragId)
        dropCtx == findContextById(data, targetId)
    IN IF ~dragCtx.found \/ ~dropCtx.found THEN NullTree
       ELSE IF containsId(dragCtx.node, targetId) THEN NullTree
       ELSE SomeTree(
         LET dp == dragCtx.path
             tp == dropCtx.path
             removed == RemovePath(data, dp)
         IN IF IsPrefix(dp, tp)
            \* the target went away with the dragged subtree: the insertion
            \* lands in the detached subtree and newData only lost the node
            THEN removed
            ELSE IF position = "inside"
            THEN LET tp2 == AdjustPath(tp, dp)
                     t == NodeAt(removed, tp2)
                 IN SetNodeAt(removed, tp2,
                      [t EXCEPT !.children = Append(t.children, dragCtx.node),
                                !.isOpen = TRUE])
            ELSE LET to0 == IF position = "before" THEN dropCtx.index
                            ELSE dropCtx.index + 1
                     sameList == Front(dp) = Front(tp)
                     to == IF sameList /\ dragCtx.index < to0 THEN to0 - 1 ELSE to0
                     lp == AdjustPath(Front(tp), dp)
                 IN SetListAt(removed, lp,
                      InsertAt(ListAt(removed, lp), to, dragCtx.node)))

\* the reducer of handlePreviewMove and handleDropOn
applyMove(prev, dragId, tid, pos) ==
  IF ~canPlaceNode(prev, dragId, tid, pos) THEN prev
  ELSE LET moved == moveNodeInTree(prev, dragId, tid, pos)
       IN IF moved.isNull THEN prev ELSE moved.tree

\* mutant: 'up' takes the node to the head of its list
moveItemTree_toFront(prev, selId, dir) ==
  LET ctx == findContextByIdWithDepth(prev, selId)
  IN IF ~ctx.found THEN prev
     ELSE
       LET list == ctx.list
           i == ctx.index + 1
           lp == Front(ctx.path)
       IN IF dir = "up" /\ ctx.index > 0
          THEN SetListAt(prev, lp, <<list[i]>> \o RemoveAt(list, i))
          ELSE IF dir = "down" /\ ctx.index < Len(list) - 1
          THEN SetListAt(prev, lp, [list EXCEPT ![i] = list[i + 1], ![i + 1] = list[i]])
          ELSE prev

\* mutant: 'right' makes the node the last child of the sibling
moveItemTree_push(prev, selId, dir) ==
  LET ctx == findContextByIdWithDepth(prev, selId)
  IN IF ~ctx.found THEN prev
     ELSE
       LET list == ctx.list
           i == ctx.index + 1
           nodeHeight == getNodeMaxDepth(ctx.node)
       IN IF dir = "right" /\ ctx.index < Len(list) - 1
          THEN LET sibling == list[i + 1]
                   parentCtx == findContextByIdWithDepth(prev, sibling.id)
               IN IF ~parentCtx.found THEN prev
                  ELSE IF (parentCtx.depth + 1) + nodeHeight - 1 >= MAX_DEPTH THEN prev
                  ELSE LET removed == RemovePath(prev, ctx.path)
                           sp == AdjustPath(parentCtx.path, ctx.path)
                           s == NodeAt(removed, sp)
                       IN SetNodeAt(removed, sp,
                            [s EXCEPT !.children = Append(s.children, ctx.node),
                                      !.isOpen = TRUE])
          ELSE prev

\* mutant: 'left' puts the node after its parent
moveItemTree_after(prev, selId, dir) ==
  LET ctx == findContextByIdWithDepth(prev, selId)
  IN IF ~ctx.found THEN prev
     ELSE IF dir = "left" /\ ctx.parent # NULL
     THEN LET pCtx == findContextById(prev, ctx.parent)
          IN IF ~pCtx.found THEN prev
             ELSE LET removed == RemovePath(prev, ctx.path)
                      plp == AdjustPath(Front(pCtx.path), ctx.path)
                  IN SetListAt(removed, plp,
                       InsertAt(ListAt(removed, plp), pCtx.index + 1, ctx.node))
     ELSE prev

\* the reducer of moveItem
moveItemTree(prev, selId, dir) ==
  LET ctx == findContextByIdWithDepth(prev, selId)
  IN IF ~ctx.found THEN prev
     ELSE
       LET list == ctx.list
           i == ctx.index + 1
           lp == Front(ctx.path)
           nodeHeight == getNodeMaxDepth(ctx.node)
       IN IF dir = "up" /\ ctx.index > 0
          THEN SetListAt(prev, lp, [list EXCEPT ![i] = list[i - 1], ![i - 1] = list[i]])
          ELSE IF dir = "down" /\ ctx.index < Len(list) - 1
          THEN SetListAt(prev, lp, [list EXCEPT ![i] = list[i + 1], ![i + 1] = list[i]])
          ELSE IF dir = "right" /\ ctx.index < Len(list) - 1
          THEN LET sibling == list[i + 1]
                   parentCtx == findContextByIdWithDepth(prev, sibling.id)
               IN IF ~parentCtx.found THEN prev
                  ELSE IF (parentCtx.depth + 1) + nodeHeight - 1 >= MAX_DEPTH THEN prev
                  ELSE LET removed == RemovePath(prev, ctx.path)
                       IN IF IsPrefix(ctx.path, parentCtx.path) THEN removed
                          ELSE LET sp == AdjustPath(parentCtx.path, ctx.path)
                                   s == NodeAt(removed, sp)
                               IN SetNodeAt(removed, sp,
                                    [s EXCEPT !.children = <<ctx.node>> \o s.children,
                                              !.isOpen = TRUE])
          ELSE IF dir = "left" /\ ctx.parent # NULL
          THEN LET pCtx == findContextById(prev, ctx.parent)
               IN IF ~pCtx.found THEN prev
                  ELSE LET removed == RemovePath(prev, ctx.path)
                       IN IF IsPrefix(ctx.path, pCtx.path) THEN removed
                          ELSE LET plp == AdjustPath(Front(pCtx.path), ctx.path)
                               IN SetListAt(removed, plp,
                                    InsertAt(ListAt(removed, plp), pCtx.index, ctx.node))
          ELSE prev

\* ------------------------------------------------------------------ titles
\* A string is the sequence of its UTF-16 code units.
MAX_TITLE_LENGTH == 36
WARNING_MS == 2000
SPACE == 32
\* the sentinel title of handleRename, five code units
UNNAMED == <<26410, 21629, 21517, 33410, 28857>>

RECURSIVE trimStart(_)
trimStart(str) ==
  IF str # <<>> /\ Head(str) = SPACE THEN trimStart(Tail(str)) ELSE str
RECURSIVE trimEnd(_)
trimEnd(str) ==
  IF str # <<>> /\ Last(str) = SPACE THEN trimEnd(Front(str)) ELSE str
\* String.prototype.trim
trim(str) == trimEnd(trimStart(str))
\* String.prototype.slice(0, n)
slice(str, n) == IF Len(str) <= n THEN str ELSE SubSeq(str, 1, n)

\* mutant: the title is stored as typed, at any length
sanitizeTitle_uncut(newTitle) == trim(newTitle)

\* handleRename: rawTitle and sanitizedTitle
rawTitleOf(newTitle) == IF trim(newTitle) = <<>> THEN UNNAMED ELSE trim(newTitle)
sanitizeTitle(newTitle) == slice(rawTitleOf(newTitle), MAX_TITLE_LENGTH)
excessOf(newTitle) ==
  IF Len(rawTitleOf(newTitle)) > MAX_TITLE_LENGTH
  THEN Len(rawTitleOf(newTitle)) - MAX_TITLE_LENGTH ELSE 0

\* handleRename: rec
RECURSIVE renameRec(_, _, _)
renameRec(nodes, id, title) ==
  [i \in 1..Len(nodes) |->
     IF nodes[i].id = id THEN [nodes[i] EXCEPT !.title = title]
     ELSE [nodes[i] EXCEPT !.children = renameRec(nodes[i].children, id, title)]]

\* -------------------------------------------------------------------- JSON
\* The stored text is the sequence of its JSON tokens. A node without an id
\* (or with the empty id) has id NULL and no id member in the text.
LB == [t |-> "["]
RB == [t |-> "]"]
LC == [t |-> "{"]
RC == [t |-> "}"]
IdTok(v) == [t |-> "id", id |-> v]
TitleTok(v) == [t |-> "title", title |-> v]
QUOTE == 34
BACKSLASH == 92

\* JSON.stringify of a string: a quote or a backslash is written after a
\* backslash; JSON.parse reads the character after a backslash as it is
\* mutant: the string is written as it is
escape_raw(str) == str

RECURSIVE escape(_)
escape(str) ==
  IF str = <<>> THEN <<>>
  ELSE (IF Head(str) \in {QUOTE, BACKSLASH} THEN <<BACKSLASH, Head(str)>>
        ELSE <<Head(str)>>) \o escape(Tail(str))
RECURSIVE unescape(_)
unescape(str) ==
  IF str = <<>> THEN <<>>
  ELSE IF Head(str) = BACKSLASH /\ Len(str) > 1
  THEN <<str[2]>> \o unescape(Tail(Tail(str)))
  ELSE <<Head(str)>> \o unescape(Tail(str))
OpenTok(v) == [t |-> "isOpen", isOpen |-> v]
ChildrenKey == [t |-> "children"]
NumberTok == [t |-> "number"]
NullTok == [t |-> "null"]

\* the value null as an element of a parsed array
NullItem == [null |-> TRUE]
IsNull(node) == "null" \in DOMAIN node

\* JSON.stringify of a TreeItem[]
RECURSIVE stringify(_)
stringifyNode(node) ==
  <<LC>> \o (IF node.id = NULL THEN <<>> ELSE <<IdTok(node.id)>>)
         \o <<TitleTok(escape(node.title)), OpenTok(node.isOpen), ChildrenKey>>
         \o stringify(node.children) \o <<RC>>
RECURSIVE stringifyAll(_)
stringifyAll(nodes) ==
  IF nodes = <<>> THEN <<>>
  ELSE stringifyNode(Head(nodes)) \o stringifyAll(Tail(nodes))
stringify(nodes) == <<LB>> \o stringifyAll(nodes) \o <<RB>>

\* JSON.parse: a parser returns [ok, value, rest]; not ok is a SyntaxError
ParseError == [ok |-> FALSE, value |-> <<>>, rest |-> <<>>]
Parsed(v, rest) == [ok |-> TRUE, value |-> v, rest |-> rest]
Expect(toks, kind) == toks # <<>> /\ Head(toks).t = kind

RECURSIVE parseElements(_)
\* an object with the members of a TreeItem, the id being optional
parseObject(toks) ==
  IF ~Expect(toks, "{") THEN ParseError
  ELSE LET hasId == Expect(Tail(toks), "id")
           id == IF hasId THEN Head(Tail(toks)).id ELSE NULL
           t1 == IF hasId THEN Tail(Tail(toks)) ELSE Tail(toks)
       IN IF ~Expect(t1, "title") THEN ParseError
          ELSE IF ~Expect(Tail(t1), "isOpen") THEN ParseError
          ELSE IF ~Expect(Tail(Tail(t1)), "children") THEN ParseError
          ELSE IF ~Expect(Tail(Tail(Tail(t1))), "[") THEN ParseError
          ELSE LET kids == parseElements(Tail(Tail(Tail(Tail(t1)))))
               IN IF ~kids.ok \/ ~Expect(kids.rest, "}") THEN ParseError
                  ELSE Parsed([id |-> id, title |-> unescape(Head(t1).title),
                               isOpen |-> Head(Tail(t1)).isOpen,
                               children |-> kids.value],
                              Tail(kids.rest))
\* the elements of an array up to its closing bracket
parseElements(toks) ==
  IF toks = <<>> THEN ParseError
  ELSE IF Head(toks).t = "]" THEN Parsed(<<>>, Tail(toks))
  ELSE LET first == IF Head(toks).t = "null" THEN Parsed(NullItem, Tail(toks))
                    ELSE parseObject(toks)
       IN IF ~first.ok THEN ParseError
          ELSE LET others == parseElements(first.rest)
               IN IF ~others.ok THEN ParseError
                  ELSE Parsed(<<first.value>> \o others.value, others.rest)

\* JSON.parse(saved) with Array.isArray of the result
JSONparse(toks) ==
  IF Expect(toks, "[")
  THEN LET r == parseElements(Tail(toks))
       IN IF r.ok /\ r.rest = <<>>
          THEN [ok |-> TRUE, isArray |-> TRUE, value |-> r.value]
          ELSE [ok |-> FALSE, isArray |-> FALSE, value |-> <<>>]
  ELSE IF toks = <<NumberTok>> \/ toks = <<LC, RC>>
  THEN [ok |-> TRUE, isArray |-> FALSE, value |-> <<>>]
  ELSE [ok |-> FALSE, isArray |-> FALSE, value |-> <<>>]

\* localStorage.getItem: null, or the text
Absent == [present |-> FALSE, text |-> <<>>]
Stored(text) == [present |-> TRUE, text |-> text]

\* ----------------------------------------------------------- normalization
\* Math.random is given as the sequence `draws` of the ids generateId returns
\* from now on; ok is FALSE when the sequence ends before a call returns.
RECURSIVE generateUniqueIdFrom(_, _)
generateUniqueIdFrom(used, draws) ==
  IF draws = <<>> THEN [ok |-> FALSE, id |-> NULL, rest |-> <<>>]
  ELSE IF Head(draws) \in used THEN generateUniqueIdFrom(used, Tail(draws))
  ELSE [ok |-> TRUE, id |-> Head(draws), rest |-> Tail(draws)]

\* mutant: the generated id is not remembered
usedAdd_skipped(used, next) == used

\* generateUniqueId: used.add(next)
usedAdd(used, next) == used \cup {next}

\* mutant: a duplicated id is kept
needsNewId_emptyOnly(id, usedIds) == id = NULL

\* normalizeTreeIds: !nextId || usedIds.has(nextId)
needsNewId(id, usedIds) == id = NULL \/ id \in usedIds

\* normalizeTreeIds: walk, with usedIds, changed and the random ids as w;
\* reading the id of an element that is null throws a TypeError
RECURSIVE walk(_, _)
walkNode(node, w) ==
  IF IsNull(node) THEN [node |-> node, w |-> [w EXCEPT !.threw = TRUE]]
  ELSE
  LET fresh == generateUniqueIdFrom(w.usedIds, w.draws)
      w1 == IF needsNewId(node.id, w.usedIds)
            THEN [usedIds |-> usedAdd(w.usedIds, fresh.id), changed |-> TRUE,
                  draws |-> fresh.rest, ok |-> w.ok /\ fresh.ok,
                  threw |-> w.threw]
            ELSE [w EXCEPT !.usedIds = w.usedIds \cup {node.id}]
      nextId == IF needsNewId(node.id, w.usedIds) THEN fresh.id ELSE node.id
      kids == walk(node.children, w1)
  IN [node |-> [node EXCEPT !.id = nextId, !.children = kids.tree], w |-> kids.w]
walk(list, w) ==
  IF list = <<>> THEN [tree |-> <<>>, w |-> w]
  ELSE LET h == walkNode(Head(list), w)
           t == walk(Tail(list), h.w)
       IN [tree |-> <<h.node>> \o t.tree, w |-> t.w]

normalizeTreeIds(nodes, draws) ==
  LET r == walk(nodes, [usedIds |-> {}, changed |-> FALSE, draws |-> draws,
                        ok |-> TRUE, threw |-> FALSE])
  IN [tree |-> r.tree, usedIds |-> r.w.usedIds, changed |-> r.w.changed,
      ok |-> r.w.ok, threw |-> r.w.threw]

\* FALLBACK_DATA: three roots, each with one child and one grandchild
FallbackNode(id, title, children) ==
  [id |-> id, title |-> title, isOpen |-> TRUE, children |-> children]
FallbackTitle(k) == [i \in 1..4 |-> 1000 + 10 * k + i]
FallbackChain(k) ==
  FallbackNode(100 + k, FallbackTitle(k),
    <<FallbackNode(101 + k, FallbackTitle(k + 1),
        <<FallbackNode(102 + k, FallbackTitle(k + 2), <<>>)>>)>>)
FALLBACK_DATA == <<FallbackChain(1), FallbackChain(4), FallbackChain(7)>>

\* =================================================================== state
VARIABLES
  data,             \* useState<TreeItem[]>: the tree
  selectedId,       \* useState: selected node id or NULL
  pendingEditId,    \* useState: node awaiting its first edit or NULL
  deleteConfirmId,  \* useState: node awaiting delete confirmation or NULL
  draggingId,       \* useState: node being dragged or NULL
  addTimers,        \* ids whose 50 ms timer set by handleAdd has not fired yet
  autoScrollFrameRef,      \* useRef: the pending animation frame or NULL
  autoScrollDirectionRef,  \* useRef: -1, 0 or 1
  rafCallbacks,     \* the frames requested from the browser and not yet run
  centerHoverStartRef,     \* useRef of each row: Date.now() of entry or NULL
  now,              \* Date.now(), in ms
  pending,          \* setData updaters queued by React and not yet applied
  last,             \* history: the last handler that ran, with its arguments
  pre,              \* history: the program state that handler started from
  pc,               \* "run", then "done" once a handler has run
  pointer,          \* history: where the last drag event was, with its y
  heldSince,        \* history: since when the pointer has stayed where it is
  centerSeen,       \* history: rows hovered in their center band this drag
  preDragData,      \* history: the tree when the drag started
  serial,           \* history: the queued moves applied one event at a time
  removedIds,       \* history: the ids deleted so far
  lengthWarning,    \* useState: NULL or the warning [id, excess] on display
  storage,          \* localStorage: the value under DATA_STORAGE_KEY
  dataInitializedRef, \* useRef: the load effect has run
  returned,         \* history: what the load effect read, and what its
                    \* normalizeTreeIds call was given and returned
  warningTimerRef,  \* useRef: the timeout set by the last triggerLengthWarning
  timeouts,         \* the browser's timeouts set by triggerLengthWarning and
                    \* neither fired nor cleared
  raised            \* history: when the warning was last raised, and before

prog == <<data, selectedId, pendingEditId, deleteConfirmId, draggingId, addTimers>>
scroll == <<autoScrollFrameRef, autoScrollDirectionRef, rafCallbacks>>
hover == <<centerHoverStartRef, now>>
history == <<pointer, heldSince, centerSeen, preDragData, serial, removedIds>>
warn == <<warningTimerRef, timeouts, raised>>
shell == <<lengthWarning, storage, dataInitializedRef, returned, warn>>
vars == <<data, selectedId, pendingEditId, deleteConfirmId, draggingId, addTimers,
          autoScrollFrameRef, autoScrollDirectionRef, rafCallbacks,
          centerHoverStartRef, now, pending, last, pre, pc,
          pointer, heldSince, centerSeen, preDragData, serial, removedIds,
          lengthWarning, storage, dataInitializedRef, returned,
          warningTimerRef, timeouts, raised>>

Snapshot ==
  [data |-> data, selectedId |-> selectedId, pendingEditId |-> pendingEditId,
   deleteConfirmId |-> deleteConfirmId, draggingId |-> draggingId,
   addTimers |-> addTimers]

Op(name, id, tid, arg) == [op |-> name, id |-> id, tid |-> tid, arg |-> arg]
\* history: no drag event yet
NoPointer ==
  [over |-> "none", row |-> NULL, y |-> 0, clientY |-> 0, same |-> FALSE,
   first |-> FALSE]

\* no length warning on display
NoWarning == [id |-> NULL, excess |-> 0]
\* warningTimerRef.current before any warning
NoTimer == [id |-> NULL, due |-> 0]
\* history: no warning raised yet
NoRaise == [at |-> NULL, prev |-> NULL]
NoReturn ==
  [saved |-> Absent, called |-> FALSE, threw |-> FALSE, input |-> <<>>,
   changed |-> FALSE, usedIds |-> {}]

\* the effect on [data]: the tree is stored again after a render that changed
\* it, once the load effect has run
persistEffect ==
  storage' = IF dataInitializedRef' /\ data' # data
             THEN Stored(stringify(data')) ELSE storage

\* a handler that leaves the warning and the load flag alone
Kept ==
  /\ UNCHANGED <<lengthWarning, dataInitializedRef, returned, warn>>
  /\ persistEffect

Record(name, id, tid, arg) ==
  /\ last' = Op(name, id, tid, arg)
  /\ pre' = Snapshot

\* ------------------------------------------------------------- auto-scroll
\* the refs of the auto-scroll loop, as one value
ScrollState ==
  [frame |-> autoScrollFrameRef, dir |-> autoScrollDirectionRef,
   callbacks |-> rafCallbacks]
SetScroll(s) ==
  /\ autoScrollFrameRef' = s.frame
  /\ autoScrollDirectionRef' = s.dir
  /\ rafCallbacks' = s.callbacks

\* requestAnimationFrame: a handle no pending frame has
requestAnimationFrame(s) ==
  CHOOSE f \in 1..(Cardinality(s.callbacks) + 1) : f \notin s.callbacks

stopAutoScroll(s) ==
  [frame |-> NULL, dir |-> 0,
   callbacks |-> IF s.frame # NULL THEN s.callbacks \ {s.frame} ELSE s.callbacks]

ensureAutoScrollLoop(s) ==
  IF s.frame # NULL THEN s
  ELSE LET f == requestAnimationFrame(s)
       IN [s EXCEPT !.frame = f, !.callbacks = s.callbacks \cup {f}]

updateAutoScrollDirection(s, dir) ==
  IF s.dir = dir THEN s
  ELSE IF dir = 0 THEN stopAutoScroll([s EXCEPT !.dir = dir])
  ELSE ensureAutoScrollLoop([s EXCEPT !.dir = dir])

\* the callback `step` of ensureAutoScrollLoop, run by the browser for frame f
step(s, f) ==
  LET ran == [s EXCEPT !.callbacks = s.callbacks \ {f}]
  IN IF ran.dir = 0 THEN stopAutoScroll(ran)
     ELSE LET g == requestAnimationFrame(ran)
          IN [ran EXCEPT !.frame = g, !.callbacks = ran.callbacks \cup {g}]

\* the cleanup of the window drag effect, run when draggingId changes from a
\* non-null value
dragEffectCleanup(s, old, new) ==
  IF old # NULL /\ new # old
  THEN stopAutoScroll(updateAutoScrollDirection(s, 0))
  ELSE s

\* a handler that leaves the auto-scroll refs alone
Log(name, id, tid, arg) ==
  /\ Record(name, id, tid, arg)
  /\ UNCHANGED scroll

\* ---------------------------------------------------------------- handlers
\* handleAdd(parentId, parentLevel); the row passes its own level, the
\* toolbar passes (null, -1); nid is the id generateUniqueId returns
handleAdd(parentId, nid) ==
  LET ctx == findContextByIdWithDepth(data, parentId)
      parentLevel == IF parentId = NULL THEN 0 - 1 ELSE ctx.depth
  IN /\ parentId # NULL => ctx.found
     /\ IF parentId # NULL /\ parentLevel >= MAX_DEPTH - 1
        THEN nid = NULL /\ UNCHANGED prog
        ELSE /\ nid \in generateUniqueId(collectIds(data))
             /\ selectedId' = NULL
             /\ data' = addToTree(data, parentId, NewNode(nid))
             /\ addTimers' = addTimers \cup {nid}
             /\ UNCHANGED <<pendingEditId, deleteConfirmId, draggingId>>
     /\ Log("add", parentId, nid, "")

\* the setTimeout callback of handleAdd
AddTimerFire(id) ==
  /\ id \in addTimers
  /\ addTimers' = addTimers \ {id}
  /\ selectedId' = id
  /\ pendingEditId' = id
  /\ UNCHANGED <<data, deleteConfirmId, draggingId>>
  /\ Log("addTimer", id, NULL, "")

\* a row is mounted when it is in the tree below open ancestors only
RECURSIVE AncestorsOpen(_, _)
AncestorsOpen(nodes, path) ==
  IF Len(path) <= 1 THEN TRUE
  ELSE IF ~nodes[Head(path)].isOpen THEN FALSE
  ELSE AncestorsOpen(nodes[Head(path)].children, Tail(path))
Mounted(id) ==
  LET path == FindPath(data, id) IN path # <<>> /\ AncestorsOpen(data, path)

\* the pendingEditId effect of the row and its onResolvePendingEdit callback
ResolvePendingEdit ==
  /\ pendingEditId # NULL
  /\ Mounted(pendingEditId)
  /\ pendingEditId' = NULL
  /\ UNCHANGED <<data, selectedId, deleteConfirmId, draggingId, addTimers>>
  /\ Log("resolveEdit", pendingEditId, NULL, "")

toggleOpen(id) ==
  /\ data' = toggleRec(data, id)
  /\ UNCHANGED <<selectedId, pendingEditId, deleteConfirmId, draggingId, addTimers>>
  /\ Log("toggle", id, NULL, "")

handleSelect(id) ==
  /\ selectedId' = IF selectedId = id THEN NULL ELSE id
  /\ LET r == ensureNodeOpenById(data, id)
     IN data' = IF r.changed THEN r.tree ELSE data
  /\ UNCHANGED <<pendingEditId, deleteConfirmId, draggingId, addTimers>>
  /\ Log("select", id, NULL, "")

\* the document click listener: a click outside every .delete-action-area,
\* and outside every .project-item when outsideItems
documentClick(outsideItems) ==
  /\ deleteConfirmId' = NULL
  /\ selectedId' = IF outsideItems THEN NULL ELSE selectedId
  /\ UNCHANGED <<data, pendingEditId, draggingId, addTimers>>
  /\ Log("click", NULL, NULL, IF outsideItems THEN "outside" ELSE "item")

\* the state changes of confirmDelete(id)
confirmDeleteEffect(id) ==
  LET ctx == findContextById(data, id)
  IN IF ~ctx.found
     THEN /\ data' = removeNodesByIds(data, {id})
          /\ UNCHANGED <<selectedId, pendingEditId, deleteConfirmId, draggingId, addTimers>>
     ELSE LET idsSet == SeqToSet(collectSubtreeIds(ctx.node))
          IN /\ deleteConfirmId' = NULL
             /\ selectedId' = IF selectedId # NULL /\ selectedId \in idsSet
                              THEN NULL ELSE selectedId
             /\ data' = removeNodesByIds(data, idsSet)
             /\ UNCHANGED <<pendingEditId, draggingId, addTimers>>

confirmDelete(id) ==
  /\ confirmDeleteEffect(id)
  /\ Log("confirmDelete", id, NULL, "")

\* mutant: the request deletes at once, whatever the node has below it
handleDeleteRequest_noConfirm(id) ==
  /\ confirmDeleteEffect(id)
  /\ Log("requestDelete", id, NULL, "")

handleDeleteRequest(id) ==
  LET ctx == findContextById(data, id)
  IN /\ IF ctx.found /\ Len(ctx.node.children) # 0
        THEN /\ deleteConfirmId' = id
             /\ UNCHANGED <<data, selectedId, pendingEditId, draggingId, addTimers>>
        ELSE confirmDeleteEffect(id)
     /\ Log("requestDelete", id, NULL, "")

handleClearAll ==
  /\ data' = <<>>
  /\ selectedId' = NULL
  /\ deleteConfirmId' = NULL
  /\ draggingId' = NULL
  /\ UNCHANGED <<pendingEditId, addTimers>>
  /\ SetScroll(dragEffectCleanup(ScrollState, draggingId, NULL))
  /\ Record("clearAll", NULL, NULL, "")

moveItem(dir) ==
  /\ IF selectedId = NULL THEN UNCHANGED data
     ELSE data' = moveItemTree(data, selectedId, dir)
  /\ UNCHANGED <<selectedId, pendingEditId, deleteConfirmId, draggingId, addTimers>>
  /\ Log("moveItem", selectedId, NULL, dir)

handleToggleAllNodes ==
  /\ data' = toggleAllTree(data, getTreeOpenState(data))
  /\ UNCHANGED <<selectedId, pendingEditId, deleteConfirmId, draggingId, addTimers>>
  /\ Log("toggleAll", NULL, NULL, getTreeOpenState(data))

\* ----------------------------------------------------------------- rename

\* mutant: the timeout of the warning before is left to fire
clearTimeout_left(pendingTimeouts, handle) == pendingTimeouts

\* clearTimeout(warningTimerRef.current): a handle that has fired, or none, is
\* no timeout of the browser any more
clearTimeout(pendingTimeouts, handle) == pendingTimeouts \ {handle}

\* the warning is shown and its expiry set WARNING_MS from now, the timeout of
\* the warning before being cleared
triggerLengthWarning(id, excess) ==
  /\ lengthWarning' = [id |-> id, excess |-> excess]
  /\ warningTimerRef' = [id |-> id, due |-> now + WARNING_MS]
  /\ timeouts' = clearTimeout(timeouts, warningTimerRef) \cup {warningTimerRef'}
  /\ raised' = [at |-> now, prev |-> raised.at]

\* the timeout's callback: setLengthWarning(prev => prev?.id === id ? null : prev)
warningExpiry(timeout) ==
  /\ timeout \in timeouts
  /\ now >= timeout.due
  /\ timeouts' = timeouts \ {timeout}
  /\ lengthWarning' =
       IF lengthWarning.id = timeout.id THEN NoWarning ELSE lengthWarning
  /\ UNCHANGED <<prog, warningTimerRef, raised>>
  /\ Log("expire", timeout.id, NULL, <<>>)

\* handleRename's state change: the title is replaced in the tree, and the
\* length warning is raised for an overlong text, else cleared if it was this
\* node's
renameEffect(id, newTitle) ==
  /\ data' = renameRec(data, id, sanitizeTitle(newTitle))
  /\ IF excessOf(newTitle) > 0
     THEN triggerLengthWarning(id, excessOf(newTitle))
     ELSE /\ lengthWarning' =
               IF lengthWarning.id = id THEN NoWarning ELSE lengthWarning
          /\ UNCHANGED warn
  /\ UNCHANGED <<selectedId, pendingEditId, deleteConfirmId, draggingId, addTimers>>

handleRename(id, newTitle) ==
  /\ renameEffect(id, newTitle)
  /\ Log("rename", id, NULL, newTitle)

\* a row's edit commit (Enter or blur): a text that is blank once trimmed is
\* dropped and the edit field reverts to the stored title
saveEdit(id, editTitle) ==
  /\ IF trim(editTitle) # <<>>
     THEN renameEffect(id, editTitle)
     ELSE UNCHANGED <<prog, lengthWarning, warn>>
  /\ Log("saveEdit", id, NULL, editTitle)

\* ------------------------------------------------------------ load effect
\* what the load effect hands to setData: the stored array with its ids
\* normalized, or FALLBACK_DATA when nothing usable is stored
\* mutant: any JSON value is taken for the tree
usableSaved_anyValue(saved, parsed) ==
  saved.present /\ saved.text # <<>> /\ parsed.ok

\* if (saved) { try { parsed = JSON.parse(saved); if (Array.isArray(parsed))
usableSaved(saved, parsed) ==
  saved.present /\ saved.text # <<>> /\ parsed.ok /\ parsed.isArray

loadResult(saved, draws) ==
  LET parsed == JSONparse(saved.text)
      usable == usableSaved(saved, parsed)
      n == normalizeTreeIds(IF usable THEN parsed.value ELSE <<>>, draws)
  IN [ok |-> n.ok \/ n.threw,
      data |-> IF usable /\ ~n.threw THEN n.tree ELSE FALLBACK_DATA,
      returned |-> [saved |-> saved, called |-> usable, threw |-> n.threw,
                    input |-> IF usable THEN parsed.value ELSE <<>>,
                    changed |-> n.changed, usedIds |-> n.usedIds]]

\* the load effect of a fresh page with the render it asks for; the persist
\* effect then stores the loaded data
loadEffect(draws) ==
  /\ ~dataInitializedRef
  /\ LET r == loadResult(storage, draws)
     IN /\ r.ok
        /\ data' = r.data
        /\ returned' = r.returned
  /\ dataInitializedRef' = TRUE
  /\ UNCHANGED <<selectedId, pendingEditId, deleteConfirmId, draggingId,
                 addTimers, lengthWarning, warn>>
  /\ Log("load", NULL, NULL, "")
  /\ persistEffect

\* the page is opened again: every state starts from its initial value, the
\* load effect reads the store, and the persist effect stores what was loaded
reload(draws) ==
  /\ LET r == loadResult(storage, draws)
     IN /\ r.ok
        /\ data' = r.data
        /\ returned' = r.returned
  /\ storage' = Stored(stringify(data'))
  /\ dataInitializedRef' = TRUE
  /\ selectedId' = NULL /\ pendingEditId' = NULL /\ deleteConfirmId' = NULL
  /\ draggingId' = NULL /\ addTimers' = {}
  /\ lengthWarning' = NoWarning
  /\ warningTimerRef' = NoTimer /\ timeouts' = {} /\ raised' = NoRaise
  /\ Log("reload", NULL, NULL, "")

\* ------------------------------------------------------------ drag session
handleDragStart(id) ==
  /\ draggingId' = id
  /\ selectedId' = NULL
  /\ UNCHANGED <<data, pendingEditId, deleteConfirmId, addTimers>>
  /\ SetScroll(dragEffectCleanup(ScrollState, draggingId, id))
  /\ Record("dragStart", id, NULL, "")

handlePreviewMove(tid, pos) ==
  /\ IF draggingId # NULL /\ draggingId # tid
     THEN data' = applyMove(data, draggingId, tid, pos)
     ELSE UNCHANGED data
  /\ UNCHANGED <<selectedId, pendingEditId, deleteConfirmId, draggingId, addTimers>>
  /\ Log("preview", draggingId, tid, pos)

\* mutant: a drop on the dragged row itself is not returned from early
handleDropOn_noSelfGuard(tid, pos) ==
  /\ IF draggingId = NULL
     THEN UNCHANGED <<prog, scroll>>
     ELSE /\ data' = applyMove(data, draggingId, tid, pos)
          /\ draggingId' = NULL
          /\ selectedId' = NULL
          /\ SetScroll(stopAutoScroll(ScrollState))
          /\ UNCHANGED <<pendingEditId, deleteConfirmId, addTimers>>
  /\ Record("drop", draggingId, tid, pos)

handleDropOn(tid, pos) ==
  /\ IF draggingId = NULL \/ draggingId = tid
     THEN UNCHANGED <<prog, scroll>>
     ELSE /\ data' = applyMove(data, draggingId, tid, pos)
          /\ draggingId' = NULL
          /\ selectedId' = NULL
          /\ SetScroll(stopAutoScroll(ScrollState))
          /\ UNCHANGED <<pendingEditId, deleteConfirmId, addTimers>>
  /\ Record("drop", draggingId, tid, pos)

handleDragEnd ==
  /\ draggingId' = NULL
  /\ selectedId' = NULL
  /\ UNCHANGED <<data, pendingEditId, deleteConfirmId, addTimers>>
  /\ SetScroll(stopAutoScroll(ScrollState))
  /\ Record("dragEnd", draggingId, NULL, "")

\* ------------------------------------------------------------ drag gesture
\* geometry of the events: the header of a row as getBoundingClientRect gives
\* it (y is measured in the same unit), and the viewport of the list
RowRect == [top |-> 0, height |-> 10]
ListRect == [top |-> 10, height |-> 100]
CENTER_HOLD_MS == 500
\* Date.now() when the session is created (never 0, which reads as no timer)
StartTime == 1000
DEAD_ZONE_PERCENT == 80

\* y >= top + h * lo/10 && y <= top + h * hi/10
InBand(y, lo, hi) ==
  /\ 10 * (y - RowRect.top) >= lo * RowRect.height
  /\ 10 * (y - RowRect.top) <= hi * RowRect.height
UpperHalf(y) == 2 * (y - RowRect.top) < RowRect.height

\* TreeNode onDragOver: the value of centerHoverStartRef after the event
hoverStart(start, t, y) ==
  IF InBand(y, 2, 8) THEN (IF start = NULL THEN t ELSE start) ELSE NULL

\* mutant: the center band reports 'inside' without waiting
hoverPosition_noHold(start, t, y) ==
  IF InBand(y, 2, 8) THEN "inside"
  ELSE IF 10 * (y - RowRect.top) < 4 * RowRect.height THEN "before" ELSE "after"

\* TreeNode onDragOver: the position reported to onPreviewMove
hoverPosition(start, t, y) ==
  IF InBand(y, 2, 8)
  THEN IF t - hoverStart(start, t, y) < CENTER_HOLD_MS
       THEN (IF UpperHalf(y) THEN "before" ELSE "after")
       ELSE "inside"
  ELSE IF 10 * (y - RowRect.top) < 4 * RowRect.height THEN "before" ELSE "after"

\* TreeNode onDrop: the position passed to onDrop
dropPosition(start, t, y) ==
  IF InBand(y, 1, 9)
  THEN IF (start # NULL /\ t - start < CENTER_HOLD_MS) \/ start = NULL
       THEN (IF UpperHalf(y) THEN "before" ELSE "after")
       ELSE "inside"
  ELSE IF 10 * (y - RowRect.top) < RowRect.height THEN "before" ELSE "after"

\* the ids on the way from the root list to the node at path
RECURSIVE PathIds(_, _)
PathIds(nodes, path) ==
  IF path = <<>> THEN <<>>
  ELSE <<nodes[Head(path)].id>> \o PathIds(nodes[Head(path)].children, Tail(path))

\* the refs of the rows after a render: a row keeps its TreeNode instance (and
\* its ref) while it stays rendered under the same chain of parents; a row
\* that is new, or was moved to another list, is mounted with a null ref
Remount(refs, old, new) ==
  [i \in IdSpace |->
     LET np == FindPath(new, i)
     IN IF np # <<>> /\ AncestorsOpen(new, np)
           /\ PathIds(new, np) = PathIds(old, FindPath(old, i))
        THEN refs[i] ELSE NULL]

\* history of the pointer: the event was on `row` at y, clientY in the window;
\* `same` when the event before it was at that very place, `first` when the
\* row had no center-band event yet in this drag
PointerOn(row, y, clientY) ==
  [over |-> "row", row |-> row, y |-> y, clientY |-> clientY,
   same |-> (pointer.over = "row" /\ pointer.row = row /\ pointer.y = y),
   first |-> (row \notin centerSeen)]
PointerAt(where, clientY) ==
  [over |-> where, row |-> NULL, y |-> 0, clientY |-> clientY, same |-> FALSE,
   first |-> FALSE]

\* history: the pointer has been in the center band of `row` since heldSince
HeldAfter(row, y) ==
  IF ~InBand(y, 2, 8) THEN NULL
  ELSE IF pointer.over = "row" /\ pointer.row = row /\ heldSince # NULL
       THEN heldSince ELSE now

\* TreeNode onDragOver of the row `row`
TreeNodeDragOver(row, y, clientY) ==
  /\ Mounted(row)
  /\ IF draggingId # NULL /\ draggingId # row
     THEN /\ handlePreviewMove(row, hoverPosition(centerHoverStartRef[row], now, y))
          /\ centerHoverStartRef' =
               Remount([centerHoverStartRef EXCEPT
                          ![row] = hoverStart(centerHoverStartRef[row], now, y)],
                       data, data')
          /\ centerSeen' = IF InBand(y, 2, 8) THEN centerSeen \cup {row} ELSE centerSeen
     ELSE /\ UNCHANGED <<prog, centerHoverStartRef, centerSeen>>
          /\ Log("hoverIgnored", draggingId, row, "")
  /\ pointer' = PointerOn(row, y, clientY)
  /\ heldSince' = HeldAfter(row, y)
  /\ pc' = "done"
  /\ UNCHANGED <<now, pending, preDragData, serial, removedIds>>
  /\ Kept

\* TreeNode onDrop of the row `row`
TreeNodeDrop(row, y, clientY) ==
  /\ Mounted(row)
  /\ handleDropOn(row, dropPosition(centerHoverStartRef[row], now, y))
  /\ centerHoverStartRef' = Remount(centerHoverStartRef, data, data')
  /\ pointer' = PointerOn(row, y, clientY)
  /\ heldSince' = NULL
  /\ pc' = "done"
  /\ UNCHANGED <<now, pending, centerSeen, preDragData, serial, removedIds>>
  /\ Kept

\* TreeNode onDragStart of the row `row`
TreeNodeDragStart(row) ==
  /\ Mounted(row)
  /\ handleDragStart(row)
  /\ pointer' = NoPointer
  /\ heldSince' = NULL
  /\ centerSeen' = {}
  /\ preDragData' = data
  /\ pc' = "done"
  /\ UNCHANGED <<hover, pending, serial, removedIds>>
  /\ Kept

\* TreeNode onDragEnd: the browser sends dragend to the row the drag started on
TreeNodeDragEnd(row) ==
  /\ Mounted(row)
  /\ \/ draggingId = row
     \/ draggingId = NULL /\ last.op = "drop" /\ last.id = row
  /\ centerHoverStartRef' = [centerHoverStartRef EXCEPT ![row] = NULL]
  /\ handleDragEnd
  /\ pointer' = NoPointer
  /\ heldSince' = NULL
  /\ pc' = "done"
  /\ UNCHANGED <<now, pending, centerSeen, preDragData, serial, removedIds>>
  /\ Kept

\* computeScrollDirection(clientY)
computeScrollDirection(clientY) ==
  LET padding == (ListRect.height * (100 - DEAD_ZONE_PERCENT)) \div 200
      deadZoneTop == ListRect.top + padding
      deadZoneBottom == ListRect.top + ListRect.height - padding
  IN IF clientY >= deadZoneTop /\ clientY <= deadZoneBottom THEN 0
     ELSE IF clientY < deadZoneTop THEN 0 - 1 ELSE 1

\* the list's onDragOver (the pointer is on the list, not on a row) and the
\* window dragover listener (the pointer is outside the list)
handleDragOver(where, clientY) ==
  /\ IF draggingId # NULL
     THEN SetScroll(updateAutoScrollDirection(ScrollState, computeScrollDirection(clientY)))
     ELSE UNCHANGED scroll
  /\ Record("dragOver", draggingId, NULL, where)
  /\ pointer' = PointerAt(where, clientY)
  /\ heldSince' = NULL
  /\ pc' = "done"
  /\ UNCHANGED <<prog, hover, pending, centerSeen, preDragData, serial, removedIds>>
  /\ Kept

\* the list's onDragLeave towards the element `related` (none, in or out)
handleListDragLeave(related) ==
  /\ IF related = "out"
     THEN SetScroll(updateAutoScrollDirection(ScrollState, 0))
     ELSE UNCHANGED scroll
  /\ Record("dragLeave", draggingId, NULL, related)
  /\ pc' = "done"
  /\ UNCHANGED <<prog, hover, pending, history>>
  /\ Kept

\* mutant: a drop on the list background puts the pre-drag tree back
handleListDrop_reverting ==
  /\ SetScroll(stopAutoScroll(updateAutoScrollDirection(ScrollState, 0)))
  /\ draggingId' = NULL
  /\ selectedId' = NULL
  /\ data' = preDragData
  /\ Record("listDrop", draggingId, NULL, "")
  /\ pointer' = PointerAt("list", pointer.clientY)
  /\ heldSince' = NULL
  /\ pc' = "done"
  /\ UNCHANGED <<pendingEditId, deleteConfirmId, addTimers, hover, pending,
                 centerSeen, preDragData, serial, removedIds>>
  /\ Kept

handleListDrop ==
  /\ SetScroll(stopAutoScroll(updateAutoScrollDirection(ScrollState, 0)))
  /\ draggingId' = NULL
  /\ selectedId' = NULL
  /\ Record("listDrop", draggingId, NULL, "")
  /\ pointer' = PointerAt("list", pointer.clientY)
  /\ heldSince' = NULL
  /\ pc' = "done"
  /\ UNCHANGED <<data, pendingEditId, deleteConfirmId, addTimers, hover, pending,
                 centerSeen, preDragData, serial, removedIds>>
  /\ Kept

\* the window drop / dragend listener, registered while draggingId is set,
\* for an event whose target is outside the list
handleWindowDrop ==
  /\ draggingId # NULL
  /\ selectedId' = NULL
  /\ draggingId' = NULL
  /\ SetScroll(stopAutoScroll(updateAutoScrollDirection(ScrollState, 0)))
  /\ Record("windowDrop", draggingId, NULL, "")
  /\ pointer' = PointerAt("window", pointer.clientY)
  /\ heldSince' = NULL
  /\ pc' = "done"
  /\ UNCHANGED <<data, pendingEditId, deleteConfirmId, addTimers, hover, pending,
                 centerSeen, preDragData, serial, removedIds>>
  /\ Kept

\* the browser runs the animation frame f
animationFrame(f) ==
  /\ f \in rafCallbacks
  /\ SetScroll(step(ScrollState, f))
  /\ Record("frame", draggingId, NULL, "")
  /\ pc' = "done"
  /\ UNCHANGED <<prog, hover, pending, history>>
  /\ Kept

\* time passes
tick(ms) ==
  /\ now' = now + ms
  /\ UNCHANGED <<prog, scroll, centerHoverStartRef, pending, last, pre, pc, history,
                 shell>>

\* ------------------------------------------------------- queued updates
\* setData(prev => ...) does not run its updater at once: React queues it
\* and runs the queue at the next render, handing each updater the result of
\* the one before it. Until that render the handlers are the closures of the
\* last render: they read its draggingId and its data.

\* mutant: the updater computes on the tree of the last render
moveUpdater_stale(prev, rendered, dragId, tid, pos) ==
  applyMove(rendered, dragId, tid, pos)

\* the updater handlePreviewMove and handleDropOn pass to setData
moveUpdater(prev, rendered, dragId, tid, pos) ==
  applyMove(prev, dragId, tid, pos)

\* React runs the queued updaters in the order of their setData calls
RECURSIVE runUpdaters(_, _, _)
runUpdaters(prev, rendered, queue) ==
  IF queue = <<>> THEN prev
  ELSE runUpdaters(moveUpdater(prev, rendered, Head(queue).dragId,
                               Head(queue).tid, Head(queue).pos),
                   rendered, Tail(queue))

Queued(tid, pos, drop) ==
  [dragId |-> draggingId, tid |-> tid, pos |-> pos, drop |-> drop]

\* handlePreviewMove called before the next render
dispatchPreviewMove(tid, pos) ==
  /\ IF draggingId # NULL /\ draggingId # tid
     THEN /\ pending' = Append(pending, Queued(tid, pos, FALSE))
          /\ serial' = applyMove(serial, draggingId, tid, pos)
     ELSE UNCHANGED <<pending, serial>>
  /\ UNCHANGED <<prog, scroll, hover, last, pre, pc, pointer, heldSince,
                 centerSeen, preDragData, removedIds, shell>>

\* handleDropOn called before the next render: its setDraggingId(null) and
\* setSelectedId(null) are queued with the updater
dispatchDropOn(tid, pos) ==
  /\ IF draggingId = NULL \/ draggingId = tid
     THEN UNCHANGED <<pending, serial, scroll>>
     ELSE /\ pending' = Append(pending, Queued(tid, pos, TRUE))
          /\ serial' = applyMove(serial, draggingId, tid, pos)
          /\ SetScroll(stopAutoScroll(ScrollState))
  /\ UNCHANGED <<prog, hover, last, pre, pc, pointer, heldSince,
                 centerSeen, preDragData, removedIds, shell>>

\* the render that follows: the queue is run and the state replaced
render ==
  /\ pending # <<>>
  /\ data' = runUpdaters(data, data, pending)
  /\ IF \E i \in 1..Len(pending) : pending[i].drop
     THEN draggingId' = NULL /\ selectedId' = NULL
     ELSE UNCHANGED <<draggingId, selectedId>>
  /\ SetScroll(dragEffectCleanup(ScrollState, draggingId, draggingId'))
  /\ pending' = <<>>
  /\ Record("render", draggingId, Last(pending).tid, Last(pending).pos)
  /\ pc' = "done"
  /\ UNCHANGED <<pendingEditId, deleteConfirmId, addTimers, hover, pointer,
                 heldSince, centerSeen, preDragData, serial, removedIds>>
  /\ Kept

\* =========================================================== specification
\* The session is drawn in any state its handlers can have built (a tree with
\* pairwise distinct ids and at most MAX_DEPTH levels, ids numbered in
\* pre-order), then one handler runs on it.

\* the open flags of a drawn tree
FlagPatterns == {"open", "oddClosed", "evenClosed"}
OpenIn(pat, id) ==
  IF pat = "open" THEN TRUE
  ELSE IF pat = "oddClosed" THEN id % 2 = 0
  ELSE id % 2 = 1

\* the forests of n nodes, their ids first, first + 1, ... in pre-order
RECURSIVE Forests(_, _, _)
Forests(n, first, pat) ==
  IF n = 0 THEN {<<>>}
  ELSE UNION {
         { <<[id |-> first, title |-> <<>>, isOpen |-> OpenIn(pat, first),
              children |-> c]>> \o r :
             c \in Forests(k, first + 1, pat),
             r \in Forests(n - 1 - k, first + 1 + k, pat) } :
         k \in 0..(n - 1) }

TreesOf(n, pats) ==
  { t \in UNION { Forests(n, 1, pat) : pat \in pats } : MaxOver(t) <= MAX_DEPTH }

NoOp == Op("init", NULL, NULL, "")

\* the ids handlers are called with: those of the tree and one absent id
ArgIds == collectIds(data) \cup {Cardinality(collectIds(data)) + 1}

Idle ==
  [selectedId |-> NULL, pendingEditId |-> NULL, deleteConfirmId |-> NULL,
   draggingId |-> NULL, addTimers |-> {}]

\* the session states drawn with a tree: each view field in turn holds any id
SessionModes(ids) ==
  {Idle}
  \cup { [Idle EXCEPT !.selectedId = i] : i \in ids }
  \cup { [Idle EXCEPT !.draggingId = i] : i \in ids }
  \cup { [Idle EXCEPT !.deleteConfirmId = i] : i \in ids }
  \cup { [Idle EXCEPT !.pendingEditId = i] : i \in ids }
  \cup { [Idle EXCEPT !.addTimers = {i}] : i \in ids }

DragModes(ids) ==
  { [Idle EXCEPT !.selectedId = i] : i \in ids }
  \cup { [Idle EXCEPT !.draggingId = i] : i \in ids }

InitBase(t, m, refs, at) ==
  /\ data = t
  /\ selectedId = m.selectedId
  /\ pendingEditId = m.pendingEditId
  /\ deleteConfirmId = m.deleteConfirmId
  /\ draggingId = m.draggingId
  /\ addTimers = m.addTimers
  /\ last = NoOp
  /\ pre = [data |-> t, selectedId |-> m.selectedId,
            pendingEditId |-> m.pendingEditId,
            deleteConfirmId |-> m.deleteConfirmId,
            draggingId |-> m.draggingId, addTimers |-> m.addTimers]
  /\ pc = "run"
  /\ autoScrollFrameRef = NULL
  /\ autoScrollDirectionRef = 0
  /\ rafCallbacks = {}
  /\ centerHoverStartRef = refs
  /\ now = at
  /\ pending = <<>>
  /\ pointer = NoPointer
  /\ heldSince = NULL
  /\ centerSeen = {}
  /\ preDragData = t
  /\ serial = t
  /\ removedIds = {}
  /\ returned = NoReturn

\* a mounted session: the data loaded, the store holding what was last
\* persisted, no length warning shown
InitAt(t, m, refs, at) ==
  /\ InitBase(t, m, refs, at)
  /\ lengthWarning = NoWarning
  /\ warningTimerRef = NoTimer /\ timeouts = {} /\ raised = NoRaise
  /\ storage = Stored(stringify(t))
  /\ dataInitializedRef = TRUE

InitWith(t, m) == InitAt(t, m, [i \in IdSpace |-> NULL], StartTime)

Init ==
  \E n \in 0..MaxNodes :
    \E t \in TreesOf(n, FlagPatterns) :
      \E m \in SessionModes(1..(n + 1)) : InitWith(t, m)

InitDeep ==
  \E n \in (MaxNodes + 1)..MaxTreeNodes :
    \E t \in TreesOf(n, {"evenClosed"}) :
      \E m \in DragModes(1..(n + 1)) : InitWith(t, m)

\* one handler runs, outside any drag gesture
Once ==
  /\ pc = "run" /\ pc' = "done"
  /\ UNCHANGED <<hover, pending, history, lengthWarning, dataInitializedRef,
                 returned, warn>>

Add == \E p \in ArgIds \cup {NULL}, nid \in ArgIds \cup {NULL} :
         Once /\ handleAdd(p, nid) /\ persistEffect
AddTimer == \E id \in ArgIds : Once /\ AddTimerFire(id) /\ persistEffect
ResolveEdit == Once /\ ResolvePendingEdit /\ persistEffect
Toggle == \E id \in ArgIds : Once /\ toggleOpen(id) /\ persistEffect
Select == \E id \in ArgIds : Once /\ handleSelect(id) /\ persistEffect
Click == \E b \in BOOLEAN : Once /\ documentClick(b) /\ persistEffect
DeleteRequest == \E id \in ArgIds : Once /\ handleDeleteRequest(id) /\ persistEffect
ConfirmDelete == \E id \in ArgIds : Once /\ confirmDelete(id) /\ persistEffect
ClearAll == Once /\ handleClearAll /\ persistEffect
MoveItem == \E dir \in Directions : Once /\ moveItem(dir) /\ persistEffect
DragStart == \E id \in ArgIds : Once /\ handleDragStart(id) /\ persistEffect
PreviewMove == \E tid \in ArgIds, pos \in Positions : Once /\ handlePreviewMove(tid, pos) /\ persistEffect
DropOn == \E tid \in ArgIds, pos \in Positions : Once /\ handleDropOn(tid, pos) /\ persistEffect
DragEnd == Once /\ handleDragEnd /\ persistEffect

Next ==
  \/ Add \/ AddTimer \/ ResolveEdit \/ Toggle \/ Select \/ Click
  \/ DeleteRequest \/ ConfirmDelete \/ ClearAll \/ MoveItem
  \/ DragStart \/ PreviewMove \/ DropOn \/ DragEnd

Spec == Init /\ [][Next]_vars

\* the handlers that place nodes, on the larger trees
NextDeep == Add \/ MoveItem \/ PreviewMove \/ DropOn

SpecDeep == InitDeep /\ [][NextDeep]_vars

\* ------------------------------------------------------- the drag gesture
\* A session that starts idle on an open tree and follows drag gestures event
\* by event, with the clock of the hover timers.
RowYs == {1, 2, 5, 9}
MidY == ListRect.top + ListRect.height \div 2

InitDrag ==
  \E n \in 2..MaxDragNodes :
    \E t \in TreesOf(n, {"open"}) : InitWith(t, Idle)

\* the browser starts a drag gesture when none is in progress
GestureStart ==
  \E row \in collectIds(data) : draggingId = NULL /\ TreeNodeDragStart(row)
HoverRow == \E row \in collectIds(data), y \in RowYs : TreeNodeDragOver(row, y, MidY)
DropRow == \E row \in collectIds(data), y \in RowYs : TreeNodeDrop(row, y, MidY)
EndRow == \E row \in collectIds(data) : TreeNodeDragEnd(row)
ListDrop == handleListDrop
WindowDrop == handleWindowDrop
Tick == now < StartTime + MaxClock /\ tick(250)

NextDrag ==
  \/ GestureStart \/ HoverRow \/ DropRow \/ EndRow
  \/ ListDrop \/ WindowDrop \/ Tick

SpecDrag == InitDrag /\ [][NextDrag]_vars

\* ---------------------------------------------------------- auto-scroll
\* The same session with the drag events of the list and of the window, and
\* the animation frames of the auto-scroll loop; the clock stands still and
\* rows are hovered in their top and bottom bands only.
ClientYs == {15, 60, 105}
EdgeYs == {1, 9}

InitScroll ==
  \E n \in 1..MaxDragNodes :
    \E t \in TreesOf(n, {"open"}) : InitWith(t, Idle)

OverRow == \E row \in collectIds(data), y \in EdgeYs, cy \in ClientYs :
             TreeNodeDragOver(row, y, cy)
OverList == \E cy \in ClientYs : handleDragOver("list", cy)
OverWindow == \E cy \in ClientYs : handleDragOver("window", cy)
LeaveList == \E related \in {"none", "in", "out"} : handleListDragLeave(related)
Frame == \E f \in rafCallbacks : animationFrame(f)
DropEdge == \E row \in collectIds(data), y \in EdgeYs, cy \in ClientYs :
              TreeNodeDrop(row, y, cy)

NextScroll ==
  \/ GestureStart \/ OverRow \/ OverList \/ OverWindow \/ LeaveList \/ Frame
  \/ DropEdge \/ EndRow \/ ListDrop \/ WindowDrop

SpecScroll == InitScroll /\ [][NextScroll]_vars

\* -------------------------------------------------------- one hover event
\* A drag in any state its events can have left (any tree, any row dragged,
\* every row's timer unset or started at some earlier time), then one hover
\* or drop event on a row, and the events that end the drag.
Times == { StartTime + 250 * k : k \in 0..(MaxClock \div 250) }
TimerMaps(ids, t) ==
  { f \in [IdSpace -> {NULL} \cup { u \in Times : u <= t }] :
      \A i \in IdSpace \ ids : f[i] = NULL }

InitHover ==
  \E n \in 2..MaxDragNodes :
    \E t \in TreesOf(n, {"open"}) :
      \E d \in 1..n, at \in Times :
        \E refs \in TimerMaps(1..n, at) :
          InitAt(t, [Idle EXCEPT !.draggingId = d], refs, at)

HoverOnce == pc = "run" /\ HoverRow
DropOnce == pc = "run" /\ DropRow

NextHover == HoverOnce \/ DropOnce \/ EndRow \/ ListDrop \/ WindowDrop

SpecHover == InitHover /\ [][NextHover]_vars


\* ---------------------------------------------------------- one batch
\* A drag in progress; up to MaxQueue hover events, the last of which may be
\* the drop, arrive before React renders.
InitBatch ==
  \E n \in 2..(MaxDragNodes + 1) :
    \E t \in TreesOf(n, {"open"}) :
      \E d \in 1..n : InitWith(t, [Idle EXCEPT !.draggingId = d])

NoDropQueued == \A i \in 1..Len(pending) : ~pending[i].drop

QueuePreview == \E tid \in collectIds(data), pos \in Positions :
                  /\ pc = "run" /\ Len(pending) < MaxQueue /\ NoDropQueued
                  /\ dispatchPreviewMove(tid, pos)
QueueDrop == \E tid \in collectIds(data), pos \in Positions :
               /\ pc = "run" /\ Len(pending) < MaxQueue /\ NoDropQueued
               /\ dispatchDropOn(tid, pos)
Render == pc = "run" /\ render

NextBatch == QueuePreview \/ QueueDrop \/ Render

SpecBatch == InitBatch /\ [][NextBatch]_vars

\* ------------------------------------------------------- a session's life
\* A session from the empty tree: rows are added (generateId draws from the
\* first MaxDragNodes ids, so the tree holds at most MaxDragNodes rows),
\* selected, toggled, dragged, moved and deleted, in any order. removedIds
\* collects every id a step took out of the tree.
LifeIds == 1..MaxDragNodes

Track ==
  /\ pc' = "done"
  /\ removedIds' = removedIds \cup (collectIds(data) \ collectIds(data'))
  /\ UNCHANGED <<hover, pending, pointer, heldSince, centerSeen, preDragData,
                 serial>>
  /\ Kept

InitLife == InitWith(<<>>, Idle)

LifeAdd == \E p \in collectIds(data) \cup {NULL}, nid \in LifeIds :
             handleAdd(p, nid) /\ Track
LifeAddTimer == \E id \in addTimers : AddTimerFire(id) /\ Track
LifeSelect == \E id \in collectIds(data) : handleSelect(id) /\ Track
LifeToggle == \E id \in collectIds(data) : toggleOpen(id) /\ Track
LifeMoveItem == \E dir \in Directions : moveItem(dir) /\ Track
LifeDragStart == \E id \in collectIds(data) : handleDragStart(id) /\ Track
LifePreview == \E tid \in collectIds(data), pos \in Positions :
                 handlePreviewMove(tid, pos) /\ Track
LifeDrop == \E tid \in collectIds(data), pos \in Positions :
              handleDropOn(tid, pos) /\ Track
LifeDelete == \E id \in collectIds(data) : confirmDelete(id) /\ Track
LifeClear == handleClearAll /\ Track

NextLife ==
  \/ LifeAdd \/ LifeAddTimer \/ LifeSelect \/ LifeToggle \/ LifeMoveItem
  \/ LifeDragStart \/ LifePreview \/ LifeDrop \/ LifeDelete \/ LifeClear

SpecLife == InitLife /\ [][NextLife]_vars

\* -------------------------------------------------------------- one load
\* A page opens on a store that holds nothing, a text that is no JSON, a JSON
\* value that is no array, an array of nodes whose ids may be missing or
\* repeated, or such an array with null as its last element; Math.random
\* returns any of DrawIds, in any order.
DrawIds == {1, 2, 3}
StoredIds == {NULL, 1, 2}

\* the sequences of exactly n elements of S
RECURSIVE SeqsOf(_, _)
SeqsOf(S, n) ==
  IF n = 0 THEN {<<>>}
  ELSE { <<x>> \o r : x \in S, r \in SeqsOf(S, n - 1) }

Draws == SeqsOf(DrawIds, MaxDragNodes)

\* the node of pre-order rank k gets the id f[k]
RECURSIVE reidentified(_, _)
reidentified(nodes, f) ==
  IF nodes = <<>> THEN <<>>
  ELSE <<[Head(nodes) EXCEPT !.id = f[Head(nodes).id],
                             !.children = reidentified(Head(nodes).children, f)]>>
       \o reidentified(Tail(nodes), f)

StoredArrays ==
  UNION { { reidentified(t, f) : t \in TreesOf(n, FlagPatterns),
                                 f \in [1..n -> StoredIds] } :
          n \in 0..MaxDragNodes }

StoredTexts ==
  { stringify(t) : t \in StoredArrays }
  \cup { Front(stringify(t)) : t \in StoredArrays }
  \cup { Front(stringify(t)) \o <<NullTok, RB>> : t \in StoredArrays }
  \cup { <<>>, <<NumberTok>>, <<LC, RC>>, <<RB>> }

InitLoad ==
  \E s \in {Absent} \cup { Stored(text) : text \in StoredTexts } :
    /\ InitBase(<<>>, Idle, [i \in IdSpace |-> NULL], StartTime)
    /\ lengthWarning = NoWarning
    /\ warningTimerRef = NoTimer /\ timeouts = {} /\ raised = NoRaise
    /\ storage = s
    /\ dataInitializedRef = FALSE

OnceLoad ==
  /\ pc = "run" /\ pc' = "done"
  /\ UNCHANGED <<hover, pending, history>>

Load == \E draws \in Draws : OnceLoad /\ loadEffect(draws)

NextLoad == Load

SpecLoad == InitLoad /\ [][NextLoad]_vars

\* ------------------------------------------------------------ one rename
\* One edit commit on a row of a small tree whose rows carry a title or none:
\* the text is typed with leading and trailing spaces and one inner space, and
\* each character is told apart by its place.
RECURSIVE titled(_, _)
titled(nodes, f) ==
  IF nodes = <<>> THEN <<>>
  ELSE <<[Head(nodes) EXCEPT !.title = f[Head(nodes).id],
                             !.children = titled(Head(nodes).children, f)]>>
       \o titled(Tail(nodes), f)

StoredTitles(n) == [1..n -> {<<>>, <<72, 105>>}]

Spaces(k) == [i \in 1..k |-> SPACE]
Body(m) == [i \in 1..m |-> IF i = 2 /\ m > 2 THEN SPACE ELSE 64 + i]
Texts ==
  { Spaces(l) \o Body(m) \o Spaces(r) :
      l \in {0, 1}, r \in {0, 1}, m \in 0..MaxText }

\* the timeout pending for a warning raised at a time
TimerOf(w, at) ==
  IF w = NoWarning THEN NoTimer ELSE [id |-> w.id, due |-> at + WARNING_MS]

\* no warning, or the warning on the first row, just raised
Warnings == {NoWarning, [id |-> 1, excess |-> 1]}

InitRename ==
  \E n \in 1..MaxDragNodes :
    \E t \in TreesOf(n, {"open"}), f \in StoredTitles(n), w \in Warnings :
      /\ InitBase(titled(t, f), Idle, [i \in IdSpace |-> NULL], StartTime)
      /\ lengthWarning = w
      /\ warningTimerRef = TimerOf(w, StartTime)
      /\ timeouts = {TimerOf(w, StartTime)} \ {NoTimer}
      /\ raised = IF w = NoWarning THEN NoRaise
                  ELSE [at |-> StartTime, prev |-> NULL]
      /\ storage = Stored(stringify(titled(t, f)))
      /\ dataInitializedRef = TRUE

OnceEdit ==
  /\ pc = "run" /\ pc' = "done"
  /\ UNCHANGED <<hover, pending, history, dataInitializedRef, returned>>

Rename == \E id \in ArgIds, text \in Texts :
            OnceEdit /\ handleRename(id, text) /\ persistEffect
SaveEdit == \E id \in collectIds(data), text \in Texts :
              OnceEdit /\ saveEdit(id, text) /\ persistEffect

NextRename == Rename \/ SaveEdit

SpecRename == InitRename /\ [][NextRename]_vars

\* ------------------------------------------------- persist, then reload
\* A session on a tree with unique ids changes the tree once (a row is
\* renamed, toggled or added), the persist effect stores it, and the page is
\* opened again. Titles hold a quote or a backslash, which the stored text
\* escapes.
TripTitles == {<<>>, <<72, 105>>, <<QUOTE>>, <<BACKSLASH, 110>>}

InitTrip ==
  \E n \in 0..MaxDragNodes :
    \E t \in TreesOf(n, FlagPatterns), f \in [1..n -> TripTitles] :
      InitWith(titled(t, f), Idle)

TripRename == \E id \in collectIds(data), text \in TripTitles \ {<<>>} :
                OnceEdit /\ handleRename(id, text) /\ persistEffect
TripToggle == \E id \in collectIds(data) : Once /\ toggleOpen(id) /\ persistEffect
TripAdd == \E p \in collectIds(data) \cup {NULL}, nid \in ArgIds :
             Once /\ handleAdd(p, nid) /\ persistEffect
Reload == \E draws \in Draws :
            /\ pc = "done" /\ pc' = "reloaded"
            /\ reload(draws)
            /\ UNCHANGED <<hover, pending, history>>

NextTrip == TripRename \/ TripToggle \/ TripAdd \/ Reload

SpecTrip == InitTrip /\ [][NextTrip]_vars

\* --------------------------------------------------------------- one add
\* One add, or one add timer firing, on the trees of up to MaxTreeNodes nodes:
\* among them those with a parent on the last level, under which nothing is
\* added.
AddModes(ids) ==
  {Idle}
  \cup { [Idle EXCEPT !.selectedId = i] : i \in ids }
  \cup { [Idle EXCEPT !.addTimers = {i}] : i \in ids }

InitAdd ==
  \E n \in 0..MaxTreeNodes :
    \E t \in TreesOf(n, {"evenClosed"}) :
      \E m \in AddModes(1..n) : InitWith(t, m)

NextAdd == Add \/ AddTimer

SpecAdd == InitAdd /\ [][NextAdd]_vars

\* ---------------------------------------------------- one open / close
\* One toggle-all, toggle or select on the trees of up to MaxNodes nodes, each
\* row open or closed on its own.
RECURSIVE flagged(_, _)
flagged(nodes, f) ==
  IF nodes = <<>> THEN <<>>
  ELSE <<[Head(nodes) EXCEPT !.isOpen = f[Head(nodes).id],
                             !.children = flagged(Head(nodes).children, f)]>>
       \o flagged(Tail(nodes), f)

InitOpen ==
  \E n \in 0..MaxNodes :
    \E t \in TreesOf(n, {"open"}), f \in [1..n -> BOOLEAN] :
      InitWith(flagged(t, f), Idle)

ToggleAll == Once /\ handleToggleAllNodes /\ persistEffect

NextOpen == ToggleAll \/ Toggle \/ Select

SpecOpen == InitOpen /\ [][NextOpen]_vars

\* ============================================================== properties
\* Helpers of the properties: they read a tree on their own, without the
\* operators that model the source.

RECURSIVE IdsIn(_)
IdsIn(nodes) ==
  IF nodes = <<>> THEN {}
  ELSE {Head(nodes).id} \cup IdsIn(Head(nodes).children) \cup IdsIn(Tail(nodes))

RECURSIVE CountIn(_)
CountIn(nodes) ==
  IF nodes = <<>> THEN 0
  ELSE 1 + CountIn(Head(nodes).children) + CountIn(Tail(nodes))

\* number of levels of a forest
RECURSIVE Levels(_)
Levels(nodes) ==
  IF nodes = <<>> THEN 0
  ELSE Max2(1 + Levels(Head(nodes).children), Levels(Tail(nodes)))

\* every node record of a forest
RECURSIVE AllNodes(_)
AllNodes(nodes) ==
  IF nodes = <<>> THEN {}
  ELSE {Head(nodes)} \cup AllNodes(Head(nodes).children) \cup AllNodes(Tail(nodes))

IdSeq(nodes) == [i \in 1..Len(nodes) |-> nodes[i].id]

\* one row per node: its parent (NULL for a root), 0-based depth and fields
RECURSIVE RowsOf(_, _, _)
RowsOf(nodes, parent, depth) ==
  UNION { {[id |-> nodes[i].id, parent |-> parent, depth |-> depth,
            title |-> nodes[i].title, isOpen |-> nodes[i].isOpen]}
          \cup RowsOf(nodes[i].children, nodes[i].id, depth + 1) :
          i \in 1..Len(nodes) }
Rows(t) == RowsOf(t, NULL, 0)

Present(t, id) == id \in IdsIn(t)
UniqueIds(t) == CountIn(t) = Cardinality(IdsIn(t))
NodeOf(t, id) == CHOOSE n \in AllNodes(t) : n.id = id
RowOf(t, id) == CHOOSE r \in Rows(t) : r.id = id
DepthOf(t, id) == RowOf(t, id).depth
ParentOf(t, id) == RowOf(t, id).parent
HeightOf(t, id) == Levels(<<NodeOf(t, id)>>)
SubtreeIds(t, id) == IdsIn(<<NodeOf(t, id)>>)
\* the ids of the children list of p, the root list for NULL
Kids(t, p) == IF p = NULL THEN IdSeq(t) ELSE IdSeq(NodeOf(t, p).children)
Without(seq, S) == SelectSeq(seq, LAMBDA x : x \notin S)
IndexIn(seq, x) == CHOOSE i \in 1..Len(seq) : seq[i] = x

Ran(name) == pc = "done" /\ last.op = name
RanMove == Ran("preview") \/ Ran("drop")

\* the depth at which move(d, t, pos) would put d, and the deepest level its
\* subtree would then reach
PlaceDepth(t, tid, pos) == DepthOf(t, tid) + (IF pos = "inside" THEN 1 ELSE 0)
Overflows(t, d, tid, pos) == PlaceDepth(t, tid, pos) + HeightOf(t, d) - 1 >= MAX_DEPTH

\* the move (d, tid, pos) is one the engine accepts on t
Accepted(t, d, tid, pos) ==
  /\ d # NULL /\ d # tid
  /\ Present(t, d) /\ Present(t, tid)
  /\ tid \notin SubtreeIds(t, d)
  /\ ~Overflows(t, d, tid, pos)

\* the following sibling of id in its list, NULL when it is the last
NextSibling(t, id) ==
  LET ks == Kids(t, ParentOf(t, id))
      i == IndexIn(ks, id)
  IN IF i < Len(ks) THEN ks[i + 1] ELSE NULL

\* ---------------------------------------------------------------------- C1
\* the handler that ran would have put a node at 0-based depth >= MAX_DEPTH
WouldExceedDepth ==
  \/ /\ Ran("add") /\ last.id # NULL
     /\ DepthOf(pre.data, last.id) + 1 >= MAX_DEPTH
  \/ /\ RanMove
     /\ last.id # NULL /\ last.id # last.tid
     /\ Present(pre.data, last.id) /\ Present(pre.data, last.tid)
     /\ Overflows(pre.data, last.id, last.tid, last.arg)
  \/ /\ Ran("moveItem") /\ last.arg = "right"
     /\ last.id # NULL /\ Present(pre.data, last.id)
     /\ NextSibling(pre.data, last.id) # NULL
     /\ Overflows(pre.data, last.id, NextSibling(pre.data, last.id), "inside")

\* C1 (depth bound): after add, preview, drop and moveItem on a tree of at
\* most MAX_DEPTH levels the tree still has at most MAX_DEPTH levels (no node
\* at 0-based depth >= MAX_DEPTH), and a handler that would have exceeded the
\* bound has left the tree as it was.
C1_DepthBound ==
  /\ Levels(data) <= MAX_DEPTH
  /\ \A r \in Rows(data) : r.depth < MAX_DEPTH
  /\ WouldExceedDepth => data = pre.data

\* a preview that only the depth bound stops: both nodes are there, the
\* target is outside the dragged subtree, which has children of its own
C1_Witness ==
  /\ Ran("preview")
  /\ WouldExceedDepth
  /\ last.tid \notin SubtreeIds(pre.data, last.id)
  /\ HeightOf(pre.data, last.id) >= 2
  /\ Levels(pre.data) < MAX_DEPTH

RECURSIVE ClimbsToRoot(_, _, _)
ClimbsToRoot(t, id, fuel) ==
  IF ParentOf(t, id) = NULL THEN TRUE
  ELSE IF fuel = 0 THEN FALSE
  ELSE ClimbsToRoot(t, ParentOf(t, id), fuel - 1)

C3_Acyclic ==
  /\ \A n \in AllNodes(data) : n.id \notin IdsIn(n.children)
  /\ \A id \in IdsIn(data) : ClimbsToRoot(data, id, CountIn(data))

\* a move has put a node with children of its own inside another node
C3_Witness ==
  /\ RanMove /\ last.arg = "inside"
  /\ data # pre.data
  /\ HeightOf(data, last.id) >= 2
  /\ ParentOf(data, last.id) = last.tid


\* ---------------------------------------------------------------------- C4
\* C4 (ownership, conservation): a preview, a drop or a moveItem step moves
\* the node (last.id) and neither copies nor loses any: the ids of the tree
\* are the same and each occurs once, the moved node is the same record with
\* the same subtree below it, and every list, the moved node taken out, holds
\* the same ids in the same order as before.
C4_Conservation ==
  (RanMove \/ Ran("moveItem")) =>
    /\ IdsIn(data) = IdsIn(pre.data)
    /\ CountIn(data) = CountIn(pre.data)
    /\ UniqueIds(data)
    /\ (last.id # NULL /\ Present(pre.data, last.id))
         => NodeOf(data, last.id) = NodeOf(pre.data, last.id)
    /\ \A p \in IdsIn(pre.data) \cup {NULL} :
         Without(Kids(data, p), {last.id}) = Without(Kids(pre.data, p), {last.id})

\* an accepted move took a node with children of its own to another parent
C4_Witness ==
  /\ RanMove
  /\ Accepted(pre.data, last.id, last.tid, last.arg)
  /\ HeightOf(pre.data, last.id) >= 2
  /\ ParentOf(data, last.id) # ParentOf(pre.data, last.id)

\* ---------------------------------------------------------------------- C5
\* the preview or drop (draggingId, tid, pos) is invalid: an id is not in the
\* tree, or the depth check fails
InvalidMove ==
  \/ last.id = NULL
  \/ ~Present(pre.data, last.id)
  \/ ~Present(pre.data, last.tid)
  \/ Overflows(pre.data, last.id, last.tid, last.arg)

\* C5 (invalid previews are ignored): a preview or drop whose dragged id or
\* target id is not in the tree, or whose depth check fails, leaves the tree
\* as it was, and an invalid preview leaves the whole session as it was; the
\* tree after any preview or drop has pairwise distinct ids and at most
\* MAX_DEPTH levels.
C5_InvalidIgnored ==
  RanMove =>
    /\ InvalidMove => data = pre.data
    /\ (InvalidMove /\ Ran("preview")) => Snapshot = pre
    /\ UniqueIds(data)
    /\ Levels(data) <= MAX_DEPTH

\* a drop that only the depth check stops
C5_Witness ==
  /\ Ran("drop")
  /\ last.id # NULL /\ last.id # last.tid
  /\ Present(pre.data, last.id) /\ Present(pre.data, last.tid)
  /\ last.tid \notin SubtreeIds(pre.data, last.id)
  /\ Overflows(pre.data, last.id, last.tid, last.arg)
  /\ data = pre.data

\* ---------------------------------------------------------------------- C6
\* the preview or drop had its target in the subtree of the dragged node
OntoOwnSubtree ==
  /\ RanMove
  /\ last.id # NULL /\ Present(pre.data, last.id)
  /\ last.tid \in SubtreeIds(pre.data, last.id)

\* C6 as claimed: a preview or drop of A onto A or a descendant of A leaves
\* the tree as it was and the drag session goes on (draggingId is kept).
C6_Original ==
  OntoOwnSubtree => (data = pre.data /\ draggingId = pre.draggingId)

\* C6 as amended (descendant-drop rejection): a preview or drop of A onto A
\* or a descendant of A leaves the tree as it was; after a preview, and after
\* a drop on A itself, the session is as before and the drag goes on; a drop
\* on a proper descendant ends the drag like any drop on another row
\* (draggingId and selectedId are null).
C6_DescendantDrop ==
  OntoOwnSubtree =>
    /\ data = pre.data
    /\ (Ran("preview") \/ last.tid = last.id) => Snapshot = pre
    /\ (Ran("drop") /\ last.tid # last.id) =>
         Snapshot = [pre EXCEPT !.draggingId = NULL, !.selectedId = NULL]

\* a node was dropped on a descendant that is not one of its children
C6_Witness ==
  /\ OntoOwnSubtree
  /\ Ran("drop")
  /\ last.tid # last.id
  /\ ParentOf(pre.data, last.tid) # last.id

\* ---------------------------------------------------------------------- C7
\* C7 (self-move no-op): a preview or a drop of a dragged node on its own row
\* changes nothing: the tree and the session are as before.
C7_SelfMove ==
  (RanMove /\ last.id # NULL /\ last.tid = last.id) => Snapshot = pre

\* a node of a tree with other nodes was dropped on itself
C7_Witness ==
  /\ Ran("drop")
  /\ last.id # NULL /\ last.tid = last.id
  /\ Present(pre.data, last.id)
  /\ CountIn(pre.data) >= 3

\* ---------------------------------------------------------------------- C8
\* C8 (before/after stability): after an accepted move of D before (after) T,
\* D is in the list of T, immediately before (after) T; with root siblings
\* 1, 2, 3, moving 1 after 2 gives 2, 1, 3 and moving 3 before 1 gives 3, 1, 2.
C8_BeforeAfter ==
  (RanMove /\ last.arg \in {"before", "after"}
     /\ Accepted(pre.data, last.id, last.tid, last.arg)) =>
    /\ ParentOf(data, last.id) = ParentOf(data, last.tid)
    /\ LET ks == Kids(data, ParentOf(data, last.tid))
       IN IndexIn(ks, last.id) =
            IndexIn(ks, last.tid) + (IF last.arg = "before" THEN 0 - 1 ELSE 1)
    /\ (IdSeq(pre.data) = <<1, 2, 3>> /\ last.id = 1 /\ last.tid = 2
          /\ last.arg = "after") => IdSeq(data) = <<2, 1, 3>>
    /\ (IdSeq(pre.data) = <<1, 2, 3>> /\ last.id = 3 /\ last.tid = 1
          /\ last.arg = "before") => IdSeq(data) = <<3, 1, 2>>

\* the first of three root siblings was moved after the second
C8_Witness ==
  /\ RanMove
  /\ IdSeq(pre.data) = <<1, 2, 3>>
  /\ last.id = 1 /\ last.tid = 2 /\ last.arg = "after"
  /\ IdSeq(data) = <<2, 1, 3>>

C10_DeleteConfirmation ==
  /\ (Ran("requestDelete") /\ Present(pre.data, last.id)) =>
       IF NodeOf(pre.data, last.id).children # <<>>
       THEN Snapshot = [pre EXCEPT !.deleteConfirmId = last.id]
       ELSE /\ IdsIn(data) = IdsIn(pre.data) \ {last.id}
            /\ CountIn(data) = CountIn(pre.data) - 1
            /\ deleteConfirmId = NULL
  /\ (pc = "done"
      /\ \E n \in AllNodes(pre.data) : n.children # <<>> /\ ~Present(data, n.id))
       => last.op \in {"confirmDelete", "clearAll"}

\* a delete was requested for a node with a child while none was pending
C10_Witness ==
  /\ Ran("requestDelete") /\ Present(pre.data, last.id)
  /\ NodeOf(pre.data, last.id).children # <<>>
  /\ pre.deleteConfirmId = NULL
  /\ deleteConfirmId = last.id


\* ------------------------------------------------- the drag gesture: C11..
\* the bands of a row, read from the geometry alone
CenterBand(y) ==
  /\ 10 * (y - RowRect.top) >= 2 * RowRect.height
  /\ 10 * (y - RowRect.top) <= 8 * RowRect.height
TopBand(y) == 10 * (y - RowRect.top) < 2 * RowRect.height
BottomBand(y) == 10 * (y - RowRect.top) > 8 * RowRect.height
ByHalf(y) == IF 2 * (y - RowRect.top) < RowRect.height THEN "before" ELSE "after"

\* the last event was a hover on a row that reported a position
Hovered == Ran("preview") /\ pointer.over = "row" /\ pointer.row = last.tid
\* the last event was a drop on a row during a drag
DroppedOnRow == Ran("drop") /\ pointer.over = "row" /\ pre.draggingId # NULL
SessionEnders == {"drop", "listDrop", "windowDrop", "dragEnd"}

\* --------------------------------------------------------------------- C11
\* C11 as claimed (drop commits nothing new), for a drop at the very place of
\* the hover event before it, in a drag whose previews have moved no row so
\* far: the tree after the drop is the tree the last preview left.
C11_Original ==
  (DroppedOnRow /\ pointer.same /\ pre.data = preDragData) => data = pre.data

\* --------------------------------------------------------------------- C12
\* C12 (non-reverting drag): a drag end, a drop on the list background and a
\* drop outside the list leave the tree as the last preview left it; they
\* set draggingId and selectedId to null and change no other view state.
C12_NonReverting ==
  (pc = "done" /\ last.op \in {"dragEnd", "listDrop", "windowDrop"}) =>
    Snapshot = [pre EXCEPT !.draggingId = NULL, !.selectedId = NULL]

\* a drop on the list background after previews changed the tree
C12_Witness ==
  /\ Ran("listDrop")
  /\ pre.draggingId # NULL
  /\ data = pre.data
  /\ data # preDragData

\* --------------------------------------------------------------------- C13
\* C13 as claimed (drag session termination): after a drop on any row, a drop
\* on the list background, a drop outside the list or a drag end, draggingId
\* is null and the auto-scroll loop is stopped.
C13_Original ==
  (pc = "done" /\ last.op \in SessionEnders) =>
    /\ draggingId = NULL
    /\ autoScrollDirectionRef = 0
    /\ autoScrollFrameRef = NULL
    /\ rafCallbacks = {}

\* --------------------------------------------------------------------- C14
\* C14 as claimed (at most one drag): a handler that starts from a non-null
\* draggingId leaves it as it is or sets it to null.
C14_Original ==
  (pc = "done" /\ pre.draggingId # NULL /\ draggingId # NULL) =>
    draggingId = pre.draggingId

\* --------------------------------------------------------------------- C15
\* C15 (hover hysteresis): a hover event on a row reports 'inside' only with
\* y in the center band and a timer of the row at least CENTER_HOLD_MS old;
\* a center-band event with a younger timer reports before/after by the half
\* of the row; an event in the top band reports before and one in the bottom
\* band after.
C15_Hysteresis ==
  Hovered =>
    LET y == pointer.y
        start == centerHoverStartRef[pointer.row]
    IN /\ last.arg = "inside" =>
            (CenterBand(y) /\ start # NULL /\ now - start >= CENTER_HOLD_MS)
       /\ (CenterBand(y) /\ start # NULL /\ now - start < CENTER_HOLD_MS) =>
            last.arg = ByHalf(y)
       /\ CenterBand(y) => start # NULL
       /\ TopBand(y) => (last.arg = "before" /\ start = NULL)
       /\ BottomBand(y) => (last.arg = "after" /\ start = NULL)

\* a hover reported inside after the hold
C15_Witness ==
  /\ Hovered
  /\ last.arg = "inside"
  /\ CenterBand(pointer.y)
  /\ centerHoverStartRef[pointer.row] # NULL
  /\ now - centerHoverStartRef[pointer.row] >= CENTER_HOLD_MS

\* --------------------------------------------------------------------- C16
\* C16 as claimed (center-band timer reset): 'inside' is reported for a row
\* only when the pointer has stayed in the center band of that row, event
\* after event, for the last CENTER_HOLD_MS.
C16_Original ==
  (Hovered /\ last.arg = "inside") =>
    (heldSince # NULL /\ now - heldSince >= CENTER_HOLD_MS)

\* --------------------------------------------------------------------- C17
\* C17 as claimed (timer invalidation at session end): the first center-band
\* hover event on a row in a drag never reports 'inside'.
C17_Original ==
  (Hovered /\ CenterBand(pointer.y) /\ pointer.first) => last.arg # "inside"

\* --------------------------------------------------------------------- C18
\* C18 (preview ordering): the tree after a render is the tree obtained by
\* applying the moves of the events queued since the last render one after
\* the other, in the order of the events, each to the tree the one before it
\* left.
C18_PreviewOrdering == Ran("render") => data = serial

\* a render of two events or more whose result is not what the last event
\* alone gives on the tree of the render before
C18_Witness ==
  /\ Ran("render")
  /\ data # pre.data
  /\ data # applyMove(pre.data, last.id, last.tid, last.arg)

\* --------------------------------------------------------------------- C19
\* the zone of the list viewport the pointer is in: -1 in the top tenth, 1 in
\* the bottom tenth, 0 in the middle 80%
ZoneOf(clientY) ==
  IF 10 * (clientY - ListRect.top) < ListRect.height THEN 0 - 1
  ELSE IF 10 * (clientY - ListRect.top) > 9 * ListRect.height THEN 1
  ELSE 0

PointerMoved ==
  /\ pc = "done"
  /\ draggingId # NULL
  /\ last.op \in {"preview", "hoverIgnored", "dragOver"}

\* C19 as claimed (auto-scroll): after every pointer event of an active drag
\* the scroll direction is that of the zone the pointer is in (-1 above the
\* dead zone, 1 below it, 0 inside it), a frame is pending exactly when the
\* direction is not 0, and at most one frame is pending.
C19_Original ==
  PointerMoved =>
    /\ autoScrollDirectionRef = ZoneOf(pointer.clientY)
    /\ (autoScrollFrameRef # NULL) <=> (autoScrollDirectionRef # 0)
    /\ Cardinality(rafCallbacks) <= 1


\* --------------------------------------------------------------------- C20
\* C20 as claimed (deletion is terminal): an id that a delete or a clear-all
\* removed from the tree is in no later tree.
C20_Original == removedIds \cap IdsIn(data) = {}

\* ------------------------------------------------------ titles: C21, C22
\* what is left of a text without the spaces at its two ends
NonSpace(text) == { i \in 1..Len(text) : text[i] # SPACE }
Least(S) == CHOOSE i \in S : \A j \in S : i <= j
Most(S) == CHOOSE i \in S : \A j \in S : j <= i
Trimmed(text) ==
  IF NonSpace(text) = {} THEN <<>>
  ELSE SubSeq(text, Least(NonSpace(text)), Most(NonSpace(text)))
FirstOf(text, n) == [i \in 1..(IF Len(text) < n THEN Len(text) ELSE n) |-> text[i]]
TitleOf(t, id) == NodeOf(t, id).title

RECURSIVE Untitled(_)
Untitled(nodes) ==
  IF nodes = <<>> THEN <<>>
  ELSE <<[id |-> Head(nodes).id, isOpen |-> Head(nodes).isOpen,
          children |-> Untitled(Head(nodes).children)]>>
       \o Untitled(Tail(nodes))

\* a rename of a row of the tree to a text that is not blank
Renamed == Ran("rename") /\ Present(pre.data, last.id) /\ Trimmed(last.arg) # <<>>

\* --------------------------------------------------------------------- C21
\* C21: a rename to a text that is not blank stores the first
\* MAX_TITLE_LENGTH characters of the trimmed text as the node's title and
\* reports the number of characters cut as the excess of a length warning on
\* that node (no warning when nothing was cut); the node record gets no other
\* field, and no other node's title, flag or place changes.
C21_RenameTruncation ==
  Renamed =>
    /\ TitleOf(data, last.id) = FirstOf(Trimmed(last.arg), MAX_TITLE_LENGTH)
    /\ Len(TitleOf(data, last.id)) <= MAX_TITLE_LENGTH
    /\ IF Len(Trimmed(last.arg)) > MAX_TITLE_LENGTH
       THEN lengthWarning = [id |-> last.id,
                             excess |-> Len(Trimmed(last.arg)) - MAX_TITLE_LENGTH]
       ELSE lengthWarning.id # last.id
    /\ DOMAIN NodeOf(data, last.id) = {"id", "title", "isOpen", "children"}
    /\ Untitled(data) = Untitled(pre.data)
    /\ \A j \in IdsIn(data) \ {last.id} : TitleOf(data, j) = TitleOf(pre.data, j)

\* a text of 50 characters was stored as a title of 36, with an excess of 14,
\* next to another row that has a title
C21_Witness ==
  /\ Renamed
  /\ Len(Trimmed(last.arg)) = 50
  /\ Len(last.arg) > 50
  /\ Len(TitleOf(data, last.id)) = 36
  /\ lengthWarning.excess = 14
  /\ \E j \in IdsIn(data) \ {last.id} : TitleOf(data, j) # <<>>

\* --------------------------------------------------------------------- C22
\* C22 as stated: after an edit is committed with a text that is blank once
\* trimmed, the node's stored title is the "unnamed" sentinel.
C22_Original ==
  (Ran("saveEdit") /\ Present(pre.data, last.id) /\ Trimmed(last.arg) = <<>>)
    => TitleOf(data, last.id) = UNNAMED

\* ---------------------------------------------- normalization: C23, C24
\* the ids of a forest in the order of the walk
RECURSIVE IdList(_)
IdList(nodes) ==
  IF nodes = <<>> THEN <<>>
  ELSE <<Head(nodes).id>> \o IdList(Head(nodes).children) \o IdList(Tail(nodes))

\* the load effect ran and called normalizeTreeIds
Normalized == Ran("load") /\ returned.called /\ ~returned.threw

IsArrayText(text) == \E t \in StoredArrays : text = stringify(t)
ArrayOf(text) == CHOOSE t \in StoredArrays : text = stringify(t)
IsArrayWithNull(text) ==
  \E t \in StoredArrays : text = Front(stringify(t)) \o <<NullTok, RB>>

\* the load effect completes on every stored value
LoadCompletes ==
  /\ pc = "run" => \E d \in Draws : loadResult(storage, d).ok
  /\ Ran("load") => dataInitializedRef /\ \A n \in AllNodes(data) : ~IsNull(n)

AddAccepted ==
  /\ Ran("add")
  /\ last.id # NULL => DepthOf(pre.data, last.id) < MAX_DEPTH - 1

\* the rows the add did not touch: all but the new one, and but the parent as
\* far as its children and its open flag go
AddKeepsOthers ==
  /\ IdsIn(data) = IdsIn(pre.data) \cup {last.tid}
  /\ \A j \in IdsIn(pre.data) :
       /\ ParentOf(data, j) = ParentOf(pre.data, j)
       /\ TitleOf(data, j) = TitleOf(pre.data, j)
       /\ j # last.id => /\ NodeOf(data, j).isOpen = NodeOf(pre.data, j).isOpen
                         /\ Kids(data, j) = Kids(pre.data, j)
  /\ last.id # NULL => Kids(data, NULL) = Kids(pre.data, NULL)

AddedOne ==
  /\ CountIn(data) = CountIn(pre.data) + 1
  /\ last.tid \notin IdsIn(pre.data)
  /\ NodeOf(data, last.tid) =
       [id |-> last.tid, title |-> <<>>, isOpen |-> TRUE, children |-> <<>>]
  /\ Kids(data, last.id) = Kids(pre.data, last.id) \o <<last.tid>>
  /\ last.id # NULL => NodeOf(data, last.id).isOpen
  /\ AddKeepsOthers

\* the 50 ms timer of an add, when it fires, selects the new node and marks it
\* pending-edit
TimerMarks ==
  /\ Ran("add") /\ data # pre.data => last.tid \in addTimers /\ selectedId = NULL
  /\ Ran("addTimer") => selectedId = last.id /\ pendingEditId = last.id

SameBut(t, u, S) ==
  /\ IdsIn(u) = IdsIn(t)
  /\ CountIn(u) = CountIn(t)
  /\ \A j \in IdsIn(t) :
       /\ TitleOf(u, j) = TitleOf(t, j)
       /\ j \notin S => /\ NodeOf(u, j).isOpen = NodeOf(t, j).isOpen
                         /\ Kids(u, j) = Kids(t, j)
  /\ NULL \notin S => Kids(u, NULL) = Kids(t, NULL)

Swapped(seq, i, j) == [seq EXCEPT ![i] = seq[j], ![j] = seq[i]]

\* --------------------------------------------------------------------- C28
\* C28: an accepted move of D inside T takes D out of the list it was in and
\* makes it the last child of T, with its subtree, and T is open afterwards,
\* also when D was a child of T before; no other list changes.
C28_MoveInside ==
  (RanMove /\ last.arg = "inside"
     /\ Accepted(pre.data, last.id, last.tid, last.arg)) =>
    LET from == ParentOf(pre.data, last.id)
    IN /\ Kids(data, last.tid) = Without(Kids(pre.data, last.tid), {last.id}) \o <<last.id>>
       /\ NodeOf(data, last.tid).isOpen
       /\ from # last.tid =>
            Kids(data, from) = Without(Kids(pre.data, from), {last.id})
       /\ NodeOf(data, last.id) = NodeOf(pre.data, last.id)
       /\ SameBut(pre.data, data, {from, last.tid})

\* D was the first of two children of the closed row T and was moved inside T
C28_Witness ==
  /\ RanMove /\ last.arg = "inside"
  /\ Accepted(pre.data, last.id, last.tid, last.arg)
  /\ ParentOf(pre.data, last.id) = last.tid
  /\ Len(Kids(pre.data, last.tid)) = 2
  /\ Kids(pre.data, last.tid)[1] = last.id
  /\ ~NodeOf(pre.data, last.tid).isOpen
  /\ Kids(data, last.tid)[2] = last.id

\* --------------------------------------------------------------------- C29
\* the selected row of the tree was moved with the keyboard
Moved(dir) ==
  Ran("moveItem") /\ last.arg = dir /\ last.id # NULL /\ Present(pre.data, last.id)

\* C29: 'up' swaps the selected row with the sibling just before it and
\* 'down' with the sibling just after it, in the same list, and nothing else
\* changes; on the first row of a list 'up', and on the last 'down', leaves
\* the tree as it is; 'down' after an 'up' that moved the row gives the tree
\* back.
C29_UpDown ==
  \A dir \in {"up", "down"} :
    Moved(dir) =>
      LET p == ParentOf(pre.data, last.id)
          ks == Kids(pre.data, p)
          i == IndexIn(ks, last.id)
          j == IF dir = "up" THEN i - 1 ELSE i + 1
      IN IF j \in 1..Len(ks)
         THEN /\ Kids(data, p) = Swapped(ks, i, j)
              /\ SameBut(pre.data, data, {p})
              /\ \A k \in IdsIn(data) : ParentOf(data, k) = ParentOf(pre.data, k)
              /\ NodeOf(data, last.id) = NodeOf(pre.data, last.id)
              /\ p # NULL => NodeOf(data, p).isOpen = NodeOf(pre.data, p).isOpen
              /\ dir = "up" => moveItemTree(data, last.id, "down") = pre.data
         ELSE data = pre.data

\* the last of three siblings, a row with a child, was moved up
C29_Witness ==
  /\ Moved("up")
  /\ Len(Kids(pre.data, ParentOf(pre.data, last.id))) = 3
  /\ IndexIn(Kids(pre.data, ParentOf(pre.data, last.id)), last.id) = 3
  /\ IndexIn(Kids(data, ParentOf(data, last.id)), last.id) = 2
  /\ data # pre.data

\* --------------------------------------------------------------------- C30
\* C30: 'right' on a selected row that has a following sibling S, when
\* depth(S) + 1 + height(row) - 1 < MAX_DEPTH, takes the row out of its list
\* and makes it the first child of S, and S is open afterwards; nothing else
\* changes. Without a following sibling, or when the bound would be passed,
\* the tree is unchanged.
C30_Right ==
  Moved("right") =>
    LET p == ParentOf(pre.data, last.id)
        S == NextSibling(pre.data, last.id)
    IN IF S # NULL
          /\ DepthOf(pre.data, S) + 1 + HeightOf(pre.data, last.id) - 1 < MAX_DEPTH
       THEN /\ Kids(data, S) = <<last.id>> \o Kids(pre.data, S)
            /\ NodeOf(data, S).isOpen
            /\ Kids(data, p) = Without(Kids(pre.data, p), {last.id})
            /\ NodeOf(data, last.id) = NodeOf(pre.data, last.id)
            /\ SameBut(pre.data, data, {p, S})
       ELSE data = pre.data

\* a row with a child went under its closed following sibling, which had a
\* child already
C30_Witness ==
  /\ Moved("right")
  /\ NextSibling(pre.data, last.id) # NULL
  /\ data # pre.data
  /\ HeightOf(pre.data, last.id) >= 2
  /\ ~NodeOf(pre.data, NextSibling(pre.data, last.id)).isOpen
  /\ Len(Kids(data, NextSibling(pre.data, last.id))) >= 2

\* --------------------------------------------------------------------- C31
\* C31: 'left' on a selected row with a parent P takes the row out of P's
\* children and puts it in the list that holds P, at P's place: it is the
\* sibling just before P, P's other children keep their order, the row keeps
\* its subtree and nothing else changes. On a root row the tree is unchanged.
C31_Left ==
  Moved("left") =>
    LET P == ParentOf(pre.data, last.id)
    IN IF P # NULL
       THEN LET g == ParentOf(pre.data, P)
                gs == Kids(pre.data, g)
                at == IndexIn(gs, P)
            IN /\ Kids(data, P) = Without(Kids(pre.data, P), {last.id})
               /\ Kids(data, g) =
                    SubSeq(gs, 1, at - 1) \o <<last.id>> \o SubSeq(gs, at, Len(gs))
               /\ NodeOf(data, last.id) = NodeOf(pre.data, last.id)
               /\ NodeOf(data, P).isOpen = NodeOf(pre.data, P).isOpen
               /\ g # NULL => NodeOf(data, g).isOpen = NodeOf(pre.data, g).isOpen
               /\ SameBut(pre.data, data, {P, g})
       ELSE data = pre.data

\* the second of P's two children was promoted, P being the second root
C31_Witness ==
  /\ Moved("left")
  /\ ParentOf(pre.data, last.id) # NULL
  /\ Len(Kids(pre.data, ParentOf(pre.data, last.id))) >= 2
  /\ IndexIn(Kids(pre.data, ParentOf(pre.data, last.id)), last.id) = 2
  /\ ParentOf(pre.data, ParentOf(pre.data, last.id)) = NULL
  /\ IndexIn(Kids(pre.data, NULL), ParentOf(pre.data, last.id)) = 2
  /\ Len(Kids(data, NULL)) = 3
  /\ Kids(data, NULL)[2] = last.id

\* ------------------------------------------------- open state: C32 .. C34
\* a row is effectively open when its flag is set and so is the flag of each
\* of its ancestors
RECURSIVE EffectivelyOpen(_, _)
EffectivelyOpen(t, id) ==
  /\ NodeOf(t, id).isOpen
  /\ ParentOf(t, id) # NULL => EffectivelyOpen(t, ParentOf(t, id))

Classified(t) ==
  IF \A id \in IdsIn(t) : ~EffectivelyOpen(t, id) THEN "all-closed"
  ELSE IF \A id \in IdsIn(t) : EffectivelyOpen(t, id) THEN "all-open"
  ELSE "mixed"

\* --------------------------------------------------------------------- C32
\* C32: getTreeOpenState is all-open when every row is effectively open,
\* all-closed when none is or the tree is empty, and mixed otherwise;
\* toggle-all on a tree that is not empty takes mixed and all-closed to
\* all-open and all-open to all-closed, so the tree is never mixed right
\* after it; it changes flags only.
C32_TriState ==
  /\ getTreeOpenState(data) = Classified(data)
  /\ Ran("toggleAll") =>
       /\ last.arg = Classified(pre.data)
       /\ pre.data # <<>> =>
            Classified(data) =
              (IF Classified(pre.data) = "all-open" THEN "all-closed" ELSE "all-open")
       /\ Classified(data) # "mixed"
       /\ \A id \in IdsIn(data) : NodeOf(data, id).isOpen = (Classified(data) = "all-open")
       /\ IdList(data) = IdList(pre.data)
       /\ SameBut(pre.data, data, IdsIn(data))
       /\ \A id \in IdsIn(data) : Kids(data, id) = Kids(pre.data, id)

\* toggle-all opened a mixed tree in which an open row sat below a closed one
C32_Witness ==
  /\ Ran("toggleAll")
  /\ Classified(pre.data) = "mixed"
  /\ \E id \in IdsIn(pre.data) :
       NodeOf(pre.data, id).isOpen /\ ~EffectivelyOpen(pre.data, id)
  /\ Classified(data) = "all-open"

\* --------------------------------------------------------------------- C33
\* C33 as stated: ensureNodeOpenById sets the flag of the target row only and
\* reports changed = TRUE exactly when the target was in the tree and closed;
\* for a target that is open or absent it reports changed = FALSE and the
\* select leaves the tree as it was.
C33_Original ==
  Ran("select") =>
    LET r == ensureNodeOpenById(pre.data, last.id)
        closed == Present(pre.data, last.id) /\ ~NodeOf(pre.data, last.id).isOpen
    IN /\ r.changed <=> closed
       /\ ~closed => data = pre.data
       /\ closed => NodeOf(data, last.id).isOpen
       /\ SameBut(pre.data, data, {})
            \/ (closed /\ SameBut(pre.data, data, {last.id})
                       /\ Kids(data, last.id) = Kids(pre.data, last.id))

\* --------------------------------------------------------------------- C34
\* the tree with the flag of every row without children set
RECURSIVE LeafBlind(_)
LeafBlind(nodes) ==
  IF nodes = <<>> THEN <<>>
  ELSE <<[Head(nodes) EXCEPT
            !.isOpen = Head(nodes).children = <<>> \/ Head(nodes).isOpen,
            !.children = LeafBlind(Head(nodes).children)]>>
       \o LeafBlind(Tail(nodes))

\* the trees that differ from t in the flags of rows without children only
LeafVariants(t) ==
  { u \in { flagged(t, f) : f \in [IdsIn(t) -> BOOLEAN] } :
      LeafBlind(u) = LeafBlind(t) }

\* C34 as stated: a tree that differs from the one toggle-all ran on in the
\* flags of childless rows only has the same open-state classification, and
\* toggle-all gives on it the same tree up to those flags.
C34_Original ==
  Ran("toggleAll") =>
    \A u \in LeafVariants(pre.data) :
      /\ getTreeOpenState(u) = getTreeOpenState(pre.data)
      /\ LeafBlind(toggleAllTree(u, getTreeOpenState(u))) = LeafBlind(data)

\* ------------------------------------------------------ renames over time
\* The rows of a tree of one or two rows are renamed, with texts within the limit and beyond
\* it, while time passes: a timeout set by triggerLengthWarning runs its
\* callback when it is due, before any later time is reached. Renames stop
\* WARNING_MS before the horizon, so that every timeout set can fire.
MaxPeriods == 3
WarnHorizon == StartTime + MaxPeriods * WARNING_MS
Delays == {WARNING_MS \div 2, WARNING_MS}
WarnTexts ==
  {<<72, 105>>, Body(MAX_TITLE_LENGTH + 1), Body(MAX_TITLE_LENGTH + 2)}

WarnRow(id) == [id |-> id, title |-> <<>>, isOpen |-> TRUE, children |-> <<>>]

InitWarn ==
  \E t \in {<<WarnRow(1)>>, <<WarnRow(1), WarnRow(2)>>} : InitWith(t, Idle)

Timed ==
  /\ pc' = "done"
  /\ UNCHANGED <<pending, history, centerHoverStartRef, dataInitializedRef,
                 returned>>

WarnRename ==
  \E id \in collectIds(data), text \in WarnTexts :
    /\ now + WARNING_MS <= WarnHorizon
    /\ Timed /\ UNCHANGED now
    /\ handleRename(id, text)
    /\ persistEffect

WarnExpire ==
  \E timeout \in timeouts :
    /\ Timed /\ UNCHANGED now
    /\ warningExpiry(timeout)
    /\ persistEffect

WarnPass ==
  \E ms \in Delays :
    /\ now + ms <= WarnHorizon
    /\ \A timeout \in timeouts : now + ms <= timeout.due
    /\ now' = now + ms
    /\ UNCHANGED <<prog, scroll, centerHoverStartRef, pending, last, pre, pc,
                   history, shell>>

NextWarn == WarnRename \/ WarnExpire \/ WarnPass

SpecWarn == InitWarn /\ [][NextWarn]_vars

\* the browser runs a due callback, and time goes on
SpecWarnLive == SpecWarn /\ WF_timeouts(WarnExpire) /\ WF_now(WarnPass)

\* the warning on display is the one its rename raised, its own timeout is the
\* only one pending, and it is not on display after WARNING_MS
WarningPending ==
  /\ (Ran("rename") /\ excessOf(last.arg) > 0) =>
       lengthWarning = [id |-> last.id, excess |-> excessOf(last.arg)]
  /\ lengthWarning # NoWarning =>
       /\ now <= raised.at + WARNING_MS
       /\ timeouts = {[id |-> lengthWarning.id, due |-> raised.at + WARNING_MS]}

\* a step that takes the warning away is a rename of its node within the
\* limit, or the timeout WARNING_MS after the warning was raised
ClearedInTime ==
  (lengthWarning # NoWarning /\ lengthWarning' = NoWarning) =>
    \/ /\ last'.op = "rename"
       /\ last'.id = lengthWarning.id
       /\ excessOf(last'.arg) = 0
    \/ /\ last'.op = "expire"
       /\ last'.id = lengthWarning.id
       /\ now = raised.at + WARNING_MS

\* a warning raised at some time is cleared, or replaced by one raised later
WarnTimes == { StartTime + k * (WARNING_MS \div 2) : k \in 0..(2 * MaxPeriods) }
Expires ==
  \A t \in WarnTimes :
    (lengthWarning # NoWarning /\ raised.at = t)
      ~> (lengthWarning = NoWarning \/ raised.at # t)

\* C35: a rename beyond the limit raises the one warning (id, excess); every
\* warning raised is cleared 2000 ms later, unless a newer warning replaces it
\* or a rename of its node within the limit clears it before; the timeout of
\* an earlier warning never clears a later one
C35_WarningExpiry ==
  /\ []WarningPending
  /\ [][ClearedInTime]_lengthWarning
  /\ Expires

\* a warning was replaced before its timeout was due, and the newer warning
\* has just been cleared by its own timeout, after the time the first timeout
\* was set for
C35_Witness ==
  /\ Ran("expire")
  /\ lengthWarning = NoWarning
  /\ raised.prev # NULL
  /\ raised.prev < raised.at
  /\ raised.at < raised.prev + WARNING_MS
  /\ now = raised.at + WARNING_MS

\* ------------------------------------------------- the same hover, twice
\* A drag is in progress on a tree of up to MaxTreeNodes nodes; a hover asks
\* for a move, and the next hover asks for the same move again.
InitHoverTwice ==
  \E n \in 0..MaxTreeNodes :
    \E t \in TreesOf(n, {"evenClosed"}) :
      \E d \in 1..(n + 1) : InitWith(t, [Idle EXCEPT !.draggingId = d])

Again ==
  /\ pc = "done" /\ pc' = "again"
  /\ UNCHANGED <<hover, pending, history, lengthWarning, dataInitializedRef,
                 returned, warn>>

PreviewAgain == Again /\ handlePreviewMove(last.tid, last.arg) /\ persistEffect

NextHoverTwice == PreviewMove \/ PreviewAgain

SpecHoverTwice == InitHoverTwice /\ [][NextHoverTwice]_vars

\* C36: a move applied a second time to its own result leaves the tree as the
\* first application made it, whether the first was accepted or not
C36_MoveIdempotent ==
  pc = "again" =>
    /\ data = pre.data
    /\ applyMove(data, last.id, last.tid, last.arg) = data

\* the first hover moved the dragged row, and the same hover has come again
C36_Witness ==
  /\ pc = "again"
  /\ last.op = "preview"
  /\ pre.data # preDragData
  /\ data = pre.data

\* ------------------------------------------------- the view's references
\* A session from the empty tree, as in SpecLife, with the rows' effect on
\* pendingEditId: a mounted row that finds its id there enters edit mode and
\* clears it right after the render, before any other event is handled.
ResolveDue == pendingEditId # NULL /\ Mounted(pendingEditId)

ViewAdd == ~ResolveDue /\ LifeAdd
ViewAddTimer == ~ResolveDue /\ LifeAddTimer
ViewResolve == ResolvePendingEdit /\ UNCHANGED scroll /\ Track
ViewSelect == ~ResolveDue /\ LifeSelect
ViewToggle == ~ResolveDue /\ LifeToggle
ViewDragStart == ~ResolveDue /\ LifeDragStart
ViewPreview == ~ResolveDue /\ LifePreview
ViewDelete == ~ResolveDue /\ LifeDelete
ViewClear == ~ResolveDue /\ LifeClear

NextView ==
  \/ ViewAdd \/ ViewAddTimer \/ ViewResolve \/ ViewSelect \/ ViewToggle
  \/ ViewDragStart \/ ViewPreview \/ ViewDelete \/ ViewClear

SpecView == InitLife /\ [][NextView]_vars

\* C37 (as stated): in every reachable state selectedId and pendingEditId are
\* each null or the id of a node of the tree, whatever the order of adds, their
\* timers, deletes, clear-all, selects and drag events
C37_Original ==
  /\ selectedId \in {NULL} \cup collectIds(data)
  /\ pendingEditId \in {NULL} \cup collectIds(data)

\* ------------------------------------------------------------- the mount
\* The page opens on a store that holds a tree with unique ids. The first
\* render shows the initial state, data = []. The mount effects then run in
\* the order of their declaration: the load effect, which hands the loaded
\* tree to setData and sets dataInitializedRef, and the persist effect, which
\* sees the data of the render it belongs to. Under React.StrictMode a
\* development build runs the mount effects a second time before it renders
\* again; a production build does not. The next render applies the queued
\* setData calls in order, and the persist effect runs on the new data. One
\* edit follows.

\* the load effect run at mount: its setData is queued for the next render;
\* returned records the first run
mountLoadEffect(draws) ==
  /\ LET r == loadResult(storage, draws)
     IN /\ r.ok
        /\ pending' = Append(pending, [set |-> r.data])
        /\ returned' = IF returned = NoReturn THEN r.returned ELSE returned
  /\ dataInitializedRef' = TRUE
  /\ UNCHANGED <<data, storage>>

\* the persist effect run at mount, on the data of the first render
mountPersistEffect ==
  /\ storage' = IF dataInitializedRef THEN Stored(stringify(data)) ELSE storage
  /\ UNCHANGED <<data, pending, dataInitializedRef, returned>>

\* the render after the mount effects: the last value set is the state, a new
\* array, and the persist effect on [data] runs
mountRender ==
  /\ pending # <<>>
  /\ data' = Last(pending).set
  /\ pending' = <<>>
  /\ storage' = IF dataInitializedRef THEN Stored(stringify(data')) ELSE storage
  /\ UNCHANGED <<dataInitializedRef, returned>>

MountFrame ==
  UNCHANGED <<selectedId, pendingEditId, deleteConfirmId, draggingId,
              addTimers, scroll, hover, last, pre, history, lengthWarning,
              warn>>

InitMount ==
  \E n \in 1..MaxNodes :
    \E t \in TreesOf(n, FlagPatterns) :
      /\ InitBase(<<>>, Idle, [i \in IdSpace |-> NULL], StartTime)
      /\ lengthWarning = NoWarning
      /\ warningTimerRef = NoTimer /\ timeouts = {} /\ raised = NoRaise
      /\ storage = Stored(stringify(t))
      /\ dataInitializedRef = FALSE

MountLoad ==
  \E draws \in Draws :
    /\ pc = "run" /\ pc' = "loaded"
    /\ mountLoadEffect(draws) /\ MountFrame
MountPersist ==
  /\ pc = "loaded" /\ pc' = "persisted"
  /\ mountPersistEffect /\ MountFrame
StrictLoad ==
  \E draws \in Draws :
    /\ pc = "persisted" /\ pc' = "loaded again"
    /\ mountLoadEffect(draws) /\ MountFrame
StrictPersist ==
  /\ pc = "loaded again" /\ pc' = "persisted again"
  /\ mountPersistEffect /\ MountFrame
MountRender ==
  /\ pc \in {"persisted", "persisted again"} /\ pc' = "settled"
  /\ mountRender /\ MountFrame
Settled ==
  /\ pc = "settled" /\ pc' = "edited"
  /\ UNCHANGED <<hover, pending, history, lengthWarning, dataInitializedRef,
                 returned, warn>>
EditToggle == \E id \in collectIds(data) :
                Settled /\ toggleOpen(id) /\ persistEffect
EditAdd == \E nid \in ArgIds : Settled /\ handleAdd(NULL, nid) /\ persistEffect

NextMount ==
  \/ MountLoad \/ MountPersist \/ StrictLoad \/ StrictPersist \/ MountRender
  \/ EditToggle \/ EditAdd

SpecMount == InitMount /\ [][NextMount]_vars

\* the mount has come to the render that applies what was loaded
Initialized == pc \in {"settled", "edited"}

\* C38 (as stated): while the store holds a valid tree, the mount never
\* replaces it before the loaded tree is applied, also when the mount effects
\* run twice; once the mount has settled the tree in memory is the one that
\* was stored, and a later write stores the current tree
C38_Original ==
  /\ ~Initialized /\ pc # "run" => storage = returned.saved
  /\ pc = "settled" => data = returned.input
  /\ Initialized => storage = Stored(stringify(data))

\* --------------------------------------------------------------------- C39
\* the node of rank k in the walk is the first to come with its id
FirstWith(ids, k) == ids[k] # NULL /\ \A j \in 1..(k - 1) : ids[j] # ids[k]

\* C39 (as stated): whatever ids Math.random gives, a node that comes with an
\* id no node before it in the walk has keeps that id (so does the only node
\* with an id, and the first of several with one id); only a node without an
\* id, or with the id of a node before it, gets a new one
C39_Original ==
  Normalized =>
    \A k \in 1..Len(IdList(returned.input)) :
      FirstWith(IdList(returned.input), k)
        <=> IdList(data)[k] = IdList(returned.input)[k]

============================================================================
